---------------------------- MODULE Spec2Model ----------------------------
(***************************************************************************)
(* A model of edwh-bundler-plugin (src/src/edwh_bundler_plugin).           *)
(*                                                                         *)
(*   SpecVersion   _decide_new_version and XOR: the version state machine  *)
(*   SpecFiles     _handle_files, start_buffer, bundle_js / bundle_css     *)
(*   SpecLedger    publish, _should_publish, insert_version, reset         *)
(*   SpecConfig    cli_or_config                                           *)
(*   SpecFill      _fill_variables and _regexify_settings                  *)
(*   SpecKind      the classification of entries: extract_contents_for_js, *)
(*                 load_css_contents                                       *)
(*   SpecWrap      _include_hyperscript, _append_to_dom, _append_to_head   *)
(*   SpecTs        extract_contents_typescript and the module loader;      *)
(*                 SpecTsLive adds that a build keeps running              *)
(*   SpecCss       extract_contents_for_css and convert_scss               *)
(*   SpecSass      convert_to_sass_variables                               *)
(*                                                                         *)
(* Text is modelled as a sequence of one-character strings, so that        *)
(* formatting (f"{major}.{minor}.{patch}") and parsing (the version        *)
(* regular expression, int()) are computed and not assumed.                *)
(***************************************************************************)
EXTENDS Integers, Sequences, FiniteSets, TLC

VARIABLES
    \* ---- _decide_new_version ----
    ver_pc,        \* "call" | "done"
    ver_in,        \* the arguments: [version, major, minor, patch, previous]
    ver_typed,     \* what input() returns if the function prompts
    ver_out,       \* the outcome of the call
    \* ---- _handle_files / bundle_js / bundle_css ----
    fs,            \* the filesystem: a function from the paths that exist to contents
    stream,        \* what has been written to the stream sink (io.StringIO, sys.stdout)
    hf_pc,         \* "idle" | "entered" | "loop" | "done" | "failed"
    hf_args,       \* [files, output, store_hash, callback] of the running call
    hf_output,     \* _handle_files' local `output`: the path written to
    hf_i,          \* position of the for loop of line 277 (1-based)
    hf_calls,      \* the entries the callback has been invoked on, in order
    hf_pre,        \* the destination as it was when the call began
    hf_err,        \* "none" | "AttributeError" | "callback"
    hf_ret,        \* what bundle_js / bundle_css returned
    hf_runs,       \* calls made so far (also the clock of datetime.now())
    \* ---- the version ledger: publish, insert_version, reset ----
    db_rows,       \* the committed rows of bundle_version, in id order
    db_conn,       \* the rows as the open connection sees them (uncommitted too)
    mirror,        \* the dump file (output_sql)
    pub_pc,        \* "idle" | "build" | "js" | "css" | "ledger_op" | "check"
                   \*   | "finish" | "raised"
    pub,           \* the locals of the running publish
    pub_prompts,   \* the confirmations requested by the running task, in order
    ins,           \* the running insert_version / reset: [op, k, filetype, after]
    \* ---- cli_or_config ----
    cfg_pc,        \* "call" | "done"
    cfg_in,        \* the arguments [value, key, is_bool, default]
    cfg_config,    \* the `config` dict handed to the call (a mutable object)
    cfg_out        \* what the call returned

VARIABLES
    \* ---- _fill_variables ----
    fill_pc,       \* "call" | "done"
    fill_in,       \* the arguments [setting, settings]; settings is the dict
                   \*   _regexify_settings is applied to
    fill_out       \* what _fill_variables returned

varsFill == <<fill_pc, fill_in, fill_out>>

VARIABLES
    \* ---- the classification of the entries of one build ----
    kind_pc,       \* "loop" | "done" | "failed"
    kind_in,       \* [callback, files]: which callback, the manifest
    kind_loaded,   \* the entries handled so far and where their contents came from
    kind_err       \* the message of the NotImplementedError, if raised

varsKind == <<kind_pc, kind_in, kind_loaded, kind_err>>

VARIABLES
    \* ---- the wrappers of js.py ----
    wrap_pc,       \* "call" | "done"
    wrap_in,       \* [wrapper, contents]
    wrap_out       \* the text the wrapper returned

varsWrap == <<wrap_pc, wrap_in, wrap_out>>

VARIABLES
    \* ---- extract_contents_typescript and the module loader ----
    ts_graph,      \* find_dependencies of every .ts module: its declared names, in order
    ts_files,      \* the entries of the bundle
    ts_settings,   \* the keys of the settings dict of this build
    ts_stack,      \* the running calls of extract_contents_typescript:
                   \*   [name, k, js_code], the innermost last
    ts_loader,     \* what include_typescript_system_loader returned for the entry
    ts_out,        \* what the callback returned for each entry handled so far
    ts_compiled,   \* every typescript_compile so far: [name, dep]
    ts_pc          \* "loop" | "ts" | "done"

varsTs == <<ts_graph, ts_files, ts_settings, ts_stack, ts_loader, ts_out, ts_compiled, ts_pc>>

VARIABLES
    \* ---- extract_contents_for_css and convert_scss ----
    css_pc,        \* "loop" | "convert_scss" | "done" | "raised"
    css_files,     \* the css entries of the build
    css_initial,   \* settings["scss_variables"] as the build began
    css_settings,  \* settings["scss_variables"] now
    css_call,      \* the compilations of the running or last convert_scss
    css_used,      \* per entry handled: the insert_variables of its convert_scss
    css_out        \* per entry handled: what the callback returned or raised

varsCss == <<css_pc, css_files, css_initial, css_settings, css_call, css_used, css_out>>

VARIABLES
    \* ---- convert_to_sass_variables ----
    sass_pc,       \* "call" | "done"
    sass_in,       \* [language, variables]: _language and the keyword arguments
    sass_out       \* the code returned, or the error raised

varsSass == <<sass_pc, sass_in, sass_out>>

varsVer == <<ver_pc, ver_in, ver_typed, ver_out>>

varsFiles == <<fs, stream, hf_pc, hf_args, hf_output, hf_i, hf_calls, hf_pre,
               hf_err, hf_ret, hf_runs>>

varsLedger == <<db_rows, db_conn, mirror, pub_pc, pub, pub_prompts, ins>>

varsConfig == <<cfg_pc, cfg_in, cfg_config, cfg_out>>

vars == <<varsVer, varsFiles, varsLedger, varsConfig,
    varsFill,
    varsKind,
    varsWrap,
    varsTs,
    varsCss,
    varsSass>>

\* what the actions of one part leave alone: the variables of the other parts
othersVer == <<varsFiles, varsLedger, varsConfig,
    varsFill,
    varsKind,
    varsWrap,
    varsTs,
    varsCss,
    varsSass>>

othersFiles == <<varsVer, varsLedger, varsConfig,
    varsFill,
    varsKind,
    varsWrap,
    varsTs,
    varsCss,
    varsSass>>

othersLedger == <<varsVer, varsFiles, varsConfig,
    varsFill,
    varsKind,
    varsWrap,
    varsTs,
    varsCss,
    varsSass>>

othersConfig == <<varsVer, varsFiles, varsLedger,
    varsFill,
    varsKind,
    varsWrap,
    varsTs,
    varsCss,
    varsSass>>

othersFill == <<varsVer, varsFiles, varsLedger, varsConfig,
    varsKind,
    varsWrap,
    varsTs,
    varsCss,
    varsSass>>

othersKind == <<varsVer, varsFiles, varsLedger, varsConfig, varsFill,
    varsWrap,
    varsTs,
    varsCss,
    varsSass>>

othersWrap == <<varsVer, varsFiles, varsLedger, varsConfig, varsFill, varsKind,
    varsTs,
    varsCss,
    varsSass>>

othersTs == <<varsVer, varsFiles, varsLedger, varsConfig, varsFill, varsKind, varsWrap,
    varsCss,
    varsSass>>

othersCss == <<varsVer, varsFiles, varsLedger, varsConfig, varsFill, varsKind, varsWrap, varsTs,
    varsSass>>

othersSass == <<varsVer, varsFiles, varsLedger, varsConfig, varsFill, varsKind, varsWrap, varsTs, varsCss>>

-----------------------------------------------------------------------------
(* Bounds of the model *)

\* longest explicit version text enumerated exhaustively
MaxVerLen == 5

\* longest file list handed to _handle_files
MaxFiles == 2

\* how many bundle calls are made one after another
MaxRuns == 2

\* publish is not started once the ledger holds this many rows
MaxRows == 2

-----------------------------------------------------------------------------
(* Text helpers: Python str(int), int(str), str.strip(".") *)

DigitChar == <<"0", "1", "2", "3", "4", "5", "6", "7", "8", "9">>

Digits == {DigitChar[i] : i \in 1..10}

IsDigit(c) == c \in Digits

DigitVal(c) == CHOOSE d \in 0..9 : DigitChar[d + 1] = c

\* str(n) for n >= 0, as used by the f-strings of lines 676-694
RECURSIVE IntToStr(_)
IntToStr(n) ==
    IF n < 10 THEN <<DigitChar[n + 1]>>
    ELSE IntToStr(n \div 10) \o <<DigitChar[(n % 10) + 1]>>

\* int(s) for a non-empty text of decimal digits (leading zeros allowed)
RECURSIVE StrToInt(_)
StrToInt(s) ==
    IF Len(s) = 0 THEN 0
    ELSE 10 * StrToInt(SubSeq(s, 1, Len(s) - 1)) + DigitVal(s[Len(s)])

\* s.strip("."): drop leading and trailing dots
RECURSIVE StripDots(_)
StripDots(s) ==
    IF Len(s) > 0 /\ s[1] = "." THEN StripDots(Tail(s))
    ELSE IF Len(s) > 0 /\ s[Len(s)] = "." THEN StripDots(SubSeq(s, 1, Len(s) - 1))
    ELSE s

\* f"{a}.{b}.{c}"
FormatVersion(a, b, c) ==
    IntToStr(a) \o <<".">> \o IntToStr(b) \o <<".">> \o IntToStr(c)

\* all texts over alphabet A of length at most n
TextsUpTo(A, n) == UNION {[1..k -> A] : k \in 0..n}

-----------------------------------------------------------------------------
(* The version regular expression, line 686:                               *)
(*     ^(\d{1,3})(\.\d{1,3})?(\.\d{1,3})?$                                 *)

\* the {1,3} of the pattern
MaxDigits == 3

\* how many digits \d{1,3} takes, greedily, from position i of s
DigitRun(s, i) ==
    CHOOSE k \in 0..MaxDigits :
        /\ \A j \in 0..(k - 1) : i + j <= Len(s) /\ IsDigit(s[i + j])
        /\ \/ k = MaxDigits
           \/ i + k > Len(s)
           \/ ~IsDigit(s[i + k])

\* the length of an optional group (\.\d{1,3})? tried at position i
DotGroupLen(s, i) ==
    IF i <= Len(s) /\ s[i] = "." /\ DigitRun(s, i + 1) >= 1
    THEN 1 + DigitRun(s, i + 1)
    ELSE 0

\* Python's "$" (no MULTILINE): the end of the text, or just before a
\* newline that is the last character of the text
DollarAt(s, i) ==
    \/ i = Len(s) + 1
    \/ i = Len(s) /\ s[i] = "\n"

\* version_re.findall(version): <<>> for no match, else <<groups>>
version_re_findall(s) ==
    LET n1 == DigitRun(s, 1)
        p2 == 1 + n1
        n2 == DotGroupLen(s, p2)
        p3 == p2 + n2
        n3 == DotGroupLen(s, p3)
        pe == p3 + n3
    IN  IF n1 >= 1 /\ DollarAt(s, pe)
        THEN << <<SubSeq(s, 1, n1), SubSeq(s, p2, p3 - 1), SubSeq(s, p3, pe - 1)>> >>
        ELSE <<>>

-----------------------------------------------------------------------------
(* XOR and _decide_new_version *)

\* a dict: a function from keys to values; {} is the function with no keys
EmptyDict == [k \in {} |-> 0]

\* dict.get(key, default)
Get(d, key, default) == IF key \in DOMAIN d THEN d[key] ELSE default

\* bool(x) of a text: None and "" are both falsy (line 668 treats them alike)
NoVersion == <<>>

Truthy(text) == Len(text) > 0

\* XOR(first, *extra), lines 535-543: result ^= bool(item) over all items
RECURSIVE XOR_fold(_, _)
XOR_fold(result, items) ==
    IF Len(items) = 0 THEN result
    ELSE XOR_fold(result # Head(items), Tail(items))

XOR(items) == XOR_fold(Head(items), Tail(items))

\* lines 686-695: validate and normalise the chosen version text
ParseVersion(version, prompted) ==
    LET groups == version_re_findall(version)
    IN  IF Len(groups) = 0
        THEN [kind |-> "invalid", prompted |-> prompted, text |-> version]
        ELSE LET g == groups[1]
                 ma == StrToInt(g[1])
                 mi == IF Len(StripDots(g[2])) > 0 THEN StrToInt(StripDots(g[2])) ELSE 0
                 pa == IF Len(StripDots(g[3])) > 0 THEN StrToInt(StripDots(g[3])) ELSE 0
             IN  [kind |-> "ok", prompted |-> prompted,
                  major |-> ma, minor |-> mi, patch |-> pa,
                  version |-> FormatVersion(ma, mi, pa)]

\* lines 674-676
BumpMajor_keep(previous) ==
    FormatVersion(Get(previous, "major", 0) + 1,
                  Get(previous, "minor", 0), Get(previous, "patch", 0))

BumpMajor(previous) ==
    FormatVersion(Get(previous, "major", 0) + 1, 0, 0)

\* lines 677-680
BumpMinor(previous) ==
    FormatVersion(Get(previous, "major", 0), Get(previous, "minor", 0) + 1, 0)

\* lines 681-685
BumpPatch(previous) ==
    FormatVersion(Get(previous, "major", 0), Get(previous, "minor", 0),
                  Get(previous, "patch", 0) + 1)

\* lines 667-695; typed is what input() returns when the function prompts
_decide_new_version(major, minor, patch, previous, version, typed) ==
    IF ~(Truthy(version) \/ major \/ minor \/ patch)
    THEN ParseVersion(typed, TRUE)
    ELSE IF ~XOR(<<Truthy(version), major, minor, patch>>)
    THEN [kind |-> "only_one", prompted |-> FALSE]
    ELSE IF major THEN ParseVersion(BumpMajor(previous), FALSE)
    ELSE IF minor THEN ParseVersion(BumpMinor(previous), FALSE)
    ELSE IF patch THEN ParseVersion(BumpPatch(previous), FALSE)
    ELSE ParseVersion(version, FALSE)


\* no call of _decide_new_version is in progress
VerIdle ==
    /\ ver_pc = "off"
    /\ ver_in = [version |-> NoVersion, major |-> FALSE, minor |-> FALSE,
                 patch |-> FALSE, previous |-> EmptyDict]
    /\ ver_typed = NoVersion
    /\ ver_out = [kind |-> "none"]

-----------------------------------------------------------------------------
(* The output sinks and the filesystem *)

\* a path is the sequence of its components
DestPath == <<"bundle.js">>

\* TEMP_OUTPUT_DIR / ts / output_filename, lines 268-274
StagingPath(ts, filename) == <<"tmp", "bundle-build">> \o IntToStr(ts) \o filename

\* f"{input_filename}.hash", line 215
HashPath(path) == path \o <<".hash">>

\* the sink descriptors: a plain path, a sqlite:// pseudo-path, an open
\* stream, or None (bundle_js / bundle_css then make an io.StringIO)
Sinks ==
    { [kind |-> "path", name |-> DestPath],
      [kind |-> "sqlite", name |-> DestPath],
      [kind |-> "stream", name |-> <<>>],
      [kind |-> "none", name |-> <<>>] }

\* isinstance(temp, io.IOBase), line 131 and line 283
IsStream(output) == output.kind \in {"stream", "none"}

Exists(f, path) == path \in DOMAIN f

\* what is at a path: whether a file exists and its content
FileState(f, path) ==
    IF Exists(f, path) THEN [exists |-> TRUE, content |-> f[path]]
    ELSE [exists |-> FALSE, content |-> <<>>]

WriteFile(f, path, content) ==
    [p \in DOMAIN f \cup {path} |-> IF p = path THEN content ELSE f[p]]

Unlink(f, path) == [p \in DOMAIN f \ {path} |-> f[p]]

\* os.rename(src, dst), line 284
os_rename(f, src, dst) ==
    IF src = dst THEN f
    ELSE [p \in (DOMAIN f \ {src}) \cup {dst} |-> IF p = dst THEN f[src] ELSE f[p]]

\* start_buffer for a path, lines 136-144: unlink the old file, open(path, "a")
start_buffer_no_unlink(f, path) ==
    IF Exists(f, path) THEN f ELSE WriteFile(f, path, <<>>)

start_buffer(f, path) ==
    WriteFile(IF Exists(f, path) THEN Unlink(f, path) ELSE f, path, <<>>)

\* calculate_file_hash: an ideal content hash (sha1sum), line 699
calculate_file_hash(content) == <<"sha1">> \o content

\* store_file_hash, lines 213-220
store_file_hash(f, path) ==
    WriteFile(f, HashPath(path), calculate_file_hash(f[path]))

\* the callback's result for one entry (extract_contents_for_js / _for_css)
CallbackResult(callback, entry) == callback \o ":" \o entry

\* bufferf.write(res + "\n"), line 279
Written(content, res) == content \o <<res, "\n">>

-----------------------------------------------------------------------------
(* SpecFiles: bundle_js / bundle_css and _handle_files *)

\* manifest entries; none holds a "$", so _fill_variables (line 197) returns
\* them unchanged
Entries == {"a.js", "b.js"}

FileLists == UNION {[1..k -> Entries] : k \in 0..MaxFiles}

Callbacks == {"js", "css"}

OldBundle == <<"old bundle", "\n">>

NoRet == [isText |-> FALSE, text |-> <<>>]

FilesLocalsIdle ==
    /\ hf_pc = "idle"
    /\ hf_args = [files |-> <<>>, output |-> [kind |-> "none", name |-> <<>>],
                  store_hash |-> FALSE, callback |-> "js"]
    /\ hf_output = <<>>
    /\ hf_i = 0
    /\ hf_calls = <<>>
    /\ hf_pre = FileState(EmptyDict, DestPath)
    /\ hf_err = "none"
    /\ hf_ret = NoRet

FilesIdle ==
    /\ fs = EmptyDict
    /\ stream = <<>>
    /\ hf_runs = 0
    /\ FilesLocalsIdle

FilesInit ==
    /\ fs \in {EmptyDict, WriteFile(EmptyDict, DestPath, OldBundle)}
    /\ stream = <<>>
    /\ hf_runs = 0
    /\ FilesLocalsIdle

\* bundle_js / bundle_css are called, lines 345-370 and 449-474
Bundle_Call ==
    /\ UNCHANGED othersFiles
    /\ hf_pc = "idle"
    /\ hf_runs < MaxRuns
    /\ \E files \in FileLists, output \in Sinks, store_hash \in BOOLEAN,
          callback \in Callbacks :
          /\ hf_args' = [files |-> files, output |-> output,
                         store_hash |-> store_hash, callback |-> callback]
          /\ stream' = IF output.kind = "none" THEN <<>> ELSE stream
          /\ hf_pre' = FileState(fs, output.name)
    /\ hf_runs' = hf_runs + 1
    /\ hf_pc' = "entered"
    /\ hf_output' = <<>>
    /\ hf_i' = 0
    /\ hf_calls' = <<>>
    /\ hf_err' = "none"
    /\ hf_ret' = NoRet
    /\ UNCHANGED fs

\* the text bundle_js returns, lines 382-386
BundleReturn(output, streamContent) ==
    IF output.kind = "none" THEN [isText |-> TRUE, text |-> streamContent]
    ELSE NoRet

\* lines 260-263: no files, nothing is written
HF_NoFiles ==
    /\ UNCHANGED othersFiles
    /\ hf_pc = "entered"
    /\ hf_args.files = <<>>
    /\ hf_pc' = "done"
    /\ hf_ret' = BundleReturn(hf_args.output, stream)
    /\ UNCHANGED <<fs, stream, hf_args, hf_output, hf_i, hf_calls, hf_pre,
                   hf_err, hf_runs>>

\* lines 266-276: output.startswith("sqlite://") and entering start_buffer.
\* A stream has no startswith: the call raises AttributeError there.
HF_Open ==
    /\ UNCHANGED othersFiles
    /\ hf_pc = "entered"
    /\ hf_args.files # <<>>
    /\ IF IsStream(hf_args.output)
       THEN /\ hf_pc' = "failed"
            /\ hf_err' = "AttributeError"
            /\ UNCHANGED <<fs, hf_output, hf_i>>
       ELSE LET path == IF hf_args.output.kind = "sqlite"
                        THEN StagingPath(hf_runs, hf_args.output.name)
                        ELSE hf_args.output.name
            IN  /\ hf_output' = path
                /\ fs' = start_buffer(fs, path)
                /\ hf_i' = 1
                /\ hf_pc' = "loop"
                /\ UNCHANGED hf_err
    /\ UNCHANGED <<stream, hf_args, hf_calls, hf_pre, hf_ret, hf_runs>>

\* lines 277-279: one entry is transformed and written, or the callback raises
\* and the with block closes the buffer (line 148)
HF_Entry ==
    /\ UNCHANGED othersFiles
    /\ hf_pc = "loop"
    /\ hf_i <= Len(hf_args.files)
    /\ hf_calls' = Append(hf_calls, hf_args.files[hf_i])
    /\ \E raised \in BOOLEAN :
          IF raised
          THEN /\ hf_pc' = "failed"
               /\ hf_err' = "callback"
               /\ UNCHANGED <<fs, stream, hf_i>>
          ELSE LET res == CallbackResult(hf_args.callback, hf_args.files[hf_i])
               IN  /\ IF IsStream(hf_args.output)
                      THEN stream' = Written(stream, res) /\ UNCHANGED fs
                      ELSE /\ fs' = WriteFile(fs, hf_output, Written(fs[hf_output], res))
                           /\ UNCHANGED stream
                   /\ hf_i' = hf_i + 1
                   /\ UNCHANGED <<hf_pc, hf_err>>
    /\ UNCHANGED <<hf_args, hf_output, hf_pre, hf_ret, hf_runs>>

\* lines 283-295 and the return of bundle_js: the buffer is closed, renamed
\* from bufferf.name (the path start_buffer opened) to output, and hashed
HF_Finish ==
    /\ UNCHANGED othersFiles
    /\ hf_pc = "loop"
    /\ hf_i > Len(hf_args.files)
    /\ LET renamed == IF IsStream(hf_args.output) THEN fs
                      ELSE os_rename(fs, hf_output, hf_output)
       IN  fs' = IF hf_args.store_hash THEN store_file_hash(renamed, hf_output)
                 ELSE renamed
    /\ hf_ret' = BundleReturn(hf_args.output, stream)
    /\ hf_pc' = "done"
    /\ UNCHANGED <<stream, hf_args, hf_output, hf_i, hf_calls, hf_pre, hf_err,
                   hf_runs>>

\* control is back at the caller
Bundle_Return ==
    /\ UNCHANGED othersFiles
    /\ hf_pc \in {"done", "failed"}
    /\ hf_pc' = "idle"
    /\ UNCHANGED <<fs, stream, hf_args, hf_output, hf_i, hf_calls, hf_pre,
                   hf_err, hf_ret, hf_runs>>

NextFiles ==
    \/ Bundle_Call
    \/ HF_NoFiles
    \/ HF_Open
    \/ HF_Entry
    \/ HF_Finish
    \/ Bundle_Return


-----------------------------------------------------------------------------
(* Claims about _handle_files *)

\* the texts of entries e1..eN, each followed by one newline, in order
RECURSIVE Rendered(_, _)
Rendered(callback, files) ==
    IF Len(files) = 0 THEN <<>>
    ELSE <<CallbackResult(callback, Head(files)), "\n">>
         \o Rendered(callback, Tail(files))

\* C1: for a filesystem-path sink, if the callback raises on any entry, the
\* file at the destination path is exactly what it was before the build (its
\* old bytes, or still absent): no partially written file is there.
C1_FailedBuildLeavesDestination ==
    (hf_pc = "failed" /\ hf_err = "callback" /\ hf_args.output.kind = "path") =>
        FileState(fs, hf_args.output.name) = hf_pre

\* C2: while _handle_files runs, and when it has succeeded, the sink holds
\* exactly the callback results of the entries handled so far, in manifest
\* order, each followed by one newline; the callback has been invoked exactly
\* once on each of them, in order, and on no later entry before the earlier
\* result was written; at the end every entry has been handled.
C2_SinkIsResultsInManifestOrder ==
    (hf_pc \in {"loop", "done"} /\ hf_args.files # <<>>) =>
        /\ hf_calls = SubSeq(hf_args.files, 1, hf_i - 1)
        /\ FileState(fs, hf_output) =
               [exists |-> TRUE, content |-> Rendered(hf_args.callback, hf_calls)]
        /\ hf_pc = "done" => hf_calls = hf_args.files

\* two different entries were bundled over an older bundle
C2_Witness ==
    /\ hf_pc = "done"
    /\ Len(hf_args.files) = 2
    /\ hf_args.files[1] # hf_args.files[2]
    /\ hf_pre.exists /\ hf_pre.content # <<>>
    /\ hf_output = DestPath
    /\ fs[DestPath] = Rendered(hf_args.callback, hf_args.files)

\* C3: with a non-empty file list and output None or an open stream, the
\* stream is used as-is (the filesystem is not touched), the call completes
\* without error, and with output None the whole bundle is returned as text.
C3_StreamSinkCompletes ==
    (hf_pc \in {"done", "failed"} /\ hf_args.files # <<>> /\ IsStream(hf_args.output)) =>
        /\ hf_err # "AttributeError"
        /\ hf_pc = "done" =>
               /\ stream = Rendered(hf_args.callback, hf_args.files)
               /\ hf_args.output.kind = "none" =>
                      hf_ret = [isText |-> TRUE, text |-> stream]


-----------------------------------------------------------------------------
(* The version ledger: the bundle_version table and its mirror *)

FileTypes == {"js", "css"}

\* the bundles a build can produce (the text of the built file)
Artifacts == { <<"bundle A", "\n">>, <<"bundle B", "\n">> }

\* previous.get("hash") of no row: None
NoneHash == <<>>

NoArtifact == <<>>

\* `sqlite3 db .dump`, line 611: the text of the committed table
Dump(rows) == [table |-> "bundle_version", inserts |-> rows]

\* ORDER BY major DESC, minor DESC, patch DESC
VersionBefore(a, b) ==
    \/ a.major > b.major
    \/ a.major = b.major /\ a.minor > b.minor
    \/ a.major = b.major /\ a.minor = b.minor /\ a.patch > b.patch

RowsOf(rows, filetype) == {i \in 1..Len(rows) : rows[i].filetype = filetype}

\* get_latest_version, lines 590-599: the first row of the ordered result, or
\* {}. SQL leaves the order of rows with equal (major, minor, patch) open, so
\* every such row may come first.
get_latest_version(rows, filetype) ==
    IF RowsOf(rows, filetype) = {} THEN {EmptyDict}
    ELSE {rows[i] : i \in {j \in RowsOf(rows, filetype) :
                              \A k \in RowsOf(rows, filetype) :
                                  ~VersionBefore(rows[k], rows[j])}}

\* version_exists, lines 634-637
version_exists(rows, filetype, version) ==
    \E i \in RowsOf(rows, filetype) : rows[i].version = version

\* confirm, lines 663-664: force or truthy(input(prompt)); answer is the
\* truth value of what the user types
confirm(force, answer) == force \/ answer

\* input() is only reached when force is not set
Asked(force) == ~force

\* lines 723-725 and 727-729: the overwrite guard of one file type
OverwriteGuard_keep(requested, exists, force, answer) == requested

OverwriteGuard(requested, exists, force, answer) ==
    IF requested /\ exists THEN confirm(force, answer) ELSE requested

\* _should_publish, lines 793-812
_should_publish_go(force, file_hash, previous_hash, answer) ==
    [asked |-> FALSE, go |-> TRUE]

_should_publish(force, file_hash, previous_hash, answer) ==
    IF file_hash = previous_hash
    THEN [asked |-> Asked(force), go |-> confirm(force, answer)]
    ELSE [asked |-> FALSE, go |-> TRUE]

\* insert_version, lines 629-631, and reset, lines 833-835: the order of the
\* statements
insert_version_dump_first == <<"execute", "dump", "commit">>

insert_version_steps == <<"execute", "commit", "dump">>

reset_steps == <<"delete", "commit", "dump">>

StepsOf(op) == IF op = "insert" THEN insert_version_steps ELSE reset_steps

\* the row publish inserts, lines 747-758
NewRow(filetype, p, artifact) ==
    [filetype |-> filetype, version |-> p.version, major |-> p.major,
     minor |-> p.minor, patch |-> p.patch,
     hash |-> calculate_file_hash(artifact), contents |-> artifact]

-----------------------------------------------------------------------------
(* SpecLedger: publish and reset *)

\* the version selectors publish is called with, and what the user types if
\* it prompts
PublishRequests ==
    { [version |-> <<"1">>, major |-> FALSE, minor |-> FALSE, patch |-> FALSE],
      [version |-> NoVersion, major |-> TRUE, minor |-> FALSE, patch |-> FALSE],
      [version |-> NoVersion, major |-> FALSE, minor |-> FALSE, patch |-> TRUE],
      [version |-> NoVersion, major |-> FALSE, minor |-> FALSE, patch |-> FALSE],
      [version |-> NoVersion, major |-> TRUE, minor |-> TRUE, patch |-> FALSE] }

TypedVersions == { <<"1", ".", "0">>, <<"l", "t", "s">> }

PubIdle ==
    [version |-> NoVersion, major |-> 0, minor |-> 0, patch |-> 0,
     req |-> [js |-> FALSE, css |-> FALSE], want |-> [js |-> FALSE, css |-> FALSE],
     force |-> FALSE, previous |-> EmptyDict,
     output |-> [js |-> NoArtifact, css |-> NoArtifact]]

InsIdle == [op |-> "none", k |-> 0, filetype |-> "none", after |-> "idle"]

LedgerIdle ==
    /\ db_rows = <<>>
    /\ db_conn = <<>>
    /\ mirror = Dump(<<>>)
    /\ pub_pc = "idle"
    /\ pub = PubIdle
    /\ pub_prompts = <<>>
    /\ ins = InsIdle

Prompt(what, filetype, answer) ==
    [what |-> what, filetype |-> filetype, answer |-> answer]

\* the prompts one confirm adds to the log
Prompts(asked, what, filetype, answer) ==
    IF asked THEN <<Prompt(what, filetype, answer)>> ELSE <<>>

\* input() is only read when a confirmation is requested
Answers(asked) == IF asked THEN BOOLEAN ELSE {FALSE}

\* input() of line 670 is only read when no selector is set
TypedFor(r) ==
    IF Truthy(r.version) \/ r.major \/ r.minor \/ r.patch THEN {NoVersion}
    ELSE TypedVersions

\* publish, lines 716-729: the latest js row, the new version, the overwrite
\* guards
PublishStart(v, previous, js, css, force, ansJs, ansCss) ==
    IF v.kind # "ok"
    THEN /\ pub_pc' = "raised"
         /\ pub' = PubIdle
         /\ pub_prompts' = <<>>
    ELSE /\ pub' = [version |-> v.version, major |-> v.major,
                    minor |-> v.minor, patch |-> v.patch,
                    req |-> [js |-> js, css |-> css],
                    want |-> [js |-> OverwriteGuard(js, version_exists(db_conn, "js", v.version),
                                                    force, ansJs),
                              css |-> OverwriteGuard(css, version_exists(db_conn, "css", v.version),
                                                     force, ansCss)],
                    force |-> force, previous |-> previous,
                    output |-> [js |-> NoArtifact, css |-> NoArtifact]]
         /\ pub_prompts' =
                Prompts(js /\ version_exists(db_conn, "js", v.version) /\ Asked(force),
                        "overwrite", "js", ansJs)
                \o Prompts(css /\ version_exists(db_conn, "css", v.version) /\ Asked(force),
                           "overwrite", "css", ansCss)
         /\ pub_pc' = "build"

Publish_Call ==
    /\ UNCHANGED othersLedger
    /\ pub_pc = "idle"
    /\ Len(db_conn) < MaxRows
    /\ \E r \in PublishRequests, previous \in get_latest_version(db_conn, "js"),
          js \in BOOLEAN, css \in BOOLEAN, force \in BOOLEAN :
       \E typed \in TypedFor(r), ansJs \in Answers(js /\ Asked(force)),
          ansCss \in Answers(css /\ Asked(force)) :
          PublishStart(_decide_new_version(r.major, r.minor, r.patch, previous,
                                           r.version, typed),
                       previous, js, css, force, ansJs, ansCss)
    /\ UNCHANGED <<db_rows, db_conn, mirror, ins>>

\* what building one file type yields: a bundle, or None when it is not built
Built(wanted) == IF wanted THEN Artifacts ELSE {NoArtifact}

\* lines 731-738: build, build_js or build_css; a failing entry aborts publish
Publish_Build ==
    /\ UNCHANGED othersLedger
    /\ pub_pc = "build"
    /\ \/ /\ pub.want.js \/ pub.want.css
          /\ pub_pc' = "raised"
          /\ UNCHANGED pub
       \/ \E aJs \in Built(pub.want.js), aCss \in Built(pub.want.css) :
             /\ pub' = [pub EXCEPT !.output = [js |-> aJs, css |-> aCss]]
             /\ pub_pc' = "js"
    /\ UNCHANGED <<db_rows, db_conn, mirror, pub_prompts, ins>>

\* lines 740-759 (js) and 763-783 (css): _should_publish, then insert_version
\* is entered or skipped
PublishGuard(filetype, previous, next) ==
    IF pub.output[filetype] = NoArtifact
    THEN pub_pc' = next /\ UNCHANGED <<pub_prompts, ins>>
    ELSE \E answer \in Answers(calculate_file_hash(pub.output[filetype])
                                  = Get(previous, "hash", NoneHash) /\ Asked(pub.force)) :
            LET d == _should_publish(pub.force,
                                     calculate_file_hash(pub.output[filetype]),
                                     Get(previous, "hash", NoneHash), answer)
            IN  /\ pub_prompts' = pub_prompts \o Prompts(d.asked, "hash", filetype, answer)
                /\ IF d.go
                   THEN /\ pub_pc' = "ledger_op"
                        /\ ins' = [op |-> "insert", k |-> 1, filetype |-> filetype,
                                   after |-> next]
                   ELSE pub_pc' = next /\ UNCHANGED ins

Publish_JS ==
    /\ UNCHANGED othersLedger
    /\ pub_pc = "js"
    /\ PublishGuard("js", pub.previous, "css")
    /\ UNCHANGED <<db_rows, db_conn, mirror, pub>>

Publish_CSS ==
    /\ UNCHANGED othersLedger
    /\ pub_pc = "css"
    /\ \E previous_css \in get_latest_version(db_conn, "css") :
          PublishGuard("css", previous_css, "finish")
    /\ UNCHANGED <<db_rows, db_conn, mirror, pub>>

\* lines 796 and 807-810: hashing or reading the built file fails (sha1sum
\* exits non-zero, the file cannot be read, the path is no str); publish
\* aborts before anything is asked or inserted for this file type
Publish_GuardRaises ==
    /\ UNCHANGED othersLedger
    /\ pub_pc \in FileTypes
    /\ pub.output[pub_pc] # NoArtifact
    /\ pub_pc' = "raised"
    /\ UNCHANGED <<db_rows, db_conn, mirror, pub, pub_prompts, ins>>

\* the statement insert_version or reset is at
CurrentStep == StepsOf(ins.op)[ins.k]

\* after a statement: the next one, or the operation is complete
StepDone ==
    IF ins.k < Len(StepsOf(ins.op))
    THEN ins' = [ins EXCEPT !.k = ins.k + 1] /\ UNCHANGED pub_pc
    ELSE ins' = InsIdle /\ pub_pc' = ins.after

\* db.execute("INSERT INTO bundle_version ..."), line 629
Insert_Execute ==
    /\ UNCHANGED othersLedger
    /\ pub_pc = "ledger_op" /\ CurrentStep = "execute"
    /\ db_conn' = Append(db_conn, NewRow(ins.filetype, pub, pub.output[ins.filetype]))
    /\ StepDone
    /\ UNCHANGED <<db_rows, mirror, pub, pub_prompts>>

\* db.execute("DELETE FROM bundle_version;"), line 833
Reset_Delete ==
    /\ UNCHANGED othersLedger
    /\ pub_pc = "ledger_op" /\ CurrentStep = "delete"
    /\ db_conn' = <<>>
    /\ StepDone
    /\ UNCHANGED <<db_rows, mirror, pub, pub_prompts>>

\* db.commit(), lines 630 and 834
Ledger_Commit ==
    /\ UNCHANGED othersLedger
    /\ pub_pc = "ledger_op" /\ CurrentStep = "commit"
    /\ db_rows' = db_conn
    /\ StepDone
    /\ UNCHANGED <<db_conn, mirror, pub, pub_prompts>>

\* _update_assets_sql, lines 602-614: another process dumps the database file,
\* which holds the committed rows
Ledger_Dump ==
    /\ UNCHANGED othersLedger
    /\ pub_pc = "ledger_op" /\ CurrentStep = "dump"
    /\ mirror' = Dump(db_rows)
    /\ StepDone
    /\ UNCHANGED <<db_rows, db_conn, pub, pub_prompts>>

\* lines 787-790: the staging directory is removed, publish returns
Publish_Finish ==
    /\ UNCHANGED othersLedger
    /\ pub_pc \in {"finish", "raised"}
    /\ pub_pc' = "idle"
    /\ UNCHANGED <<db_rows, db_conn, mirror, pub, pub_prompts, ins>>

\* reset, lines 824-835: confirm has no force here
Reset_Call ==
    /\ UNCHANGED othersLedger
    /\ pub_pc = "idle"
    /\ \E answer \in BOOLEAN :
          /\ pub_prompts' = <<Prompt("reset", "all", answer)>>
          /\ IF confirm(FALSE, answer)
             THEN /\ pub_pc' = "ledger_op"
                  /\ ins' = [op |-> "reset", k |-> 1, filetype |-> "all",
                             after |-> "check"]
             ELSE UNCHANGED <<pub_pc, ins>>
    /\ pub' = PubIdle
    /\ UNCHANGED <<db_rows, db_conn, mirror>>

\* line 837: assert COUNT(*) == 0
Reset_Check ==
    /\ UNCHANGED othersLedger
    /\ pub_pc = "check"
    /\ pub_pc' = IF Len(db_conn) = 0 THEN "idle" ELSE "raised"
    /\ UNCHANGED <<db_rows, db_conn, mirror, pub, pub_prompts, ins>>

NextLedger ==
    \/ Publish_Call
    \/ Publish_Build
    \/ Publish_JS
    \/ Publish_CSS
    \/ Publish_GuardRaises
    \/ Insert_Execute
    \/ Reset_Delete
    \/ Ledger_Commit
    \/ Ledger_Dump
    \/ Publish_Finish
    \/ Reset_Call
    \/ Reset_Check

-----------------------------------------------------------------------------
(* Claims about publish, insert_version and reset *)

CountOf(rows, filetype) == Cardinality(RowsOf(rows, filetype))

HasPrompt(what, filetype, answer) ==
    \E i \in 1..Len(pub_prompts) : pub_prompts[i] = Prompt(what, filetype, answer)

\* the hash of the bundle built for a file type
BuiltHash(filetype) == calculate_file_hash(pub.output[filetype])

\* the built bundle has the hash of the latest recorded version of its type
HashMatches(filetype) ==
    /\ pub.output[filetype] # NoArtifact
    /\ RowsOf(db_conn, filetype) # {}
    /\ \A r \in get_latest_version(db_conn, filetype) : r.hash = BuiltHash(filetype)

\* no latest recorded version of the type has the hash of the built bundle
HashDiffers(filetype) ==
    \A r \in get_latest_version(db_conn, filetype) :
        Get(r, "hash", NoneHash) # BuiltHash(filetype)

C7_Step(filetype) ==
    /\ (pub_pc = filetype /\ ~pub.force /\ HashMatches(filetype)
            /\ pub_pc' # "raised") =>
           /\ \E answer \in BOOLEAN :
                  pub_prompts' = Append(pub_prompts, Prompt("hash", filetype, answer))
           /\ pub_prompts' = Append(pub_prompts, Prompt("hash", filetype, FALSE)) =>
                  /\ db_conn' = db_conn
                  /\ db_rows' = db_rows
                  /\ pub_pc' # "ledger_op"
    /\ (CountOf(db_conn', filetype) > CountOf(db_conn, filetype)
            /\ ~pub.force /\ HashMatches(filetype)) =>
           HasPrompt("hash", filetype, TRUE)
    /\ HasPrompt("hash", filetype, FALSE) =>
           /\ CountOf(db_conn', filetype) = CountOf(db_conn, filetype)
           /\ CountOf(db_rows', filetype) = CountOf(db_rows, filetype)

\* C7: in publish without force, when the built bundle's hash equals the hash
\* of the latest recorded version of its file type, a confirmation is
\* requested before a row of that type is inserted; a row is then inserted
\* only after it was accepted, and once it is declined the rows of that type
\* (so the row count) stay as they were for the rest of the invocation. (If
\* hashing the built file fails, publish aborts and nothing is inserted.)
C7_HashGuard == [][\A filetype \in FileTypes : C7_Step(filetype)]_vars

\* an unchanged js bundle was offered, the confirmation declined, nothing added
C7_Witness ==
    /\ pub_pc = "css"
    /\ HasPrompt("hash", "js", FALSE)
    /\ CountOf(db_rows, "js") = 1
    /\ db_rows[1].hash = BuiltHash("js")

C8_State(filetype) ==
    /\ HasPrompt("overwrite", filetype, FALSE) =>
           /\ ~pub.want[filetype]
           /\ pub.output[filetype] = NoArtifact
           /\ ~(pub_pc = "ledger_op" /\ ins.filetype = filetype)
    /\ pub_pc \in {"js", "css", "ledger_op", "finish"} =>
           (pub.output[filetype] # NoArtifact <=> pub.want[filetype])
    /\ pub.want[filetype] <=>
           (pub.req[filetype] /\ ~HasPrompt("overwrite", filetype, FALSE))
    /\ pub.force => pub_prompts = <<>>

C8_Step(filetype) ==
    /\ (pub_pc = "idle" /\ pub_pc' = "build") =>
           IF pub'.req[filetype] /\ ~pub'.force
                  /\ version_exists(db_conn, filetype, pub'.version)
           THEN \E i \in 1..Len(pub_prompts') :
                    pub_prompts'[i] = Prompt("overwrite", filetype, pub'.want[filetype])
           ELSE \A i \in 1..Len(pub_prompts') : pub_prompts'[i].filetype # filetype
    /\ CountOf(db_conn', filetype) > CountOf(db_conn, filetype) =>
           ~HasPrompt("overwrite", filetype, FALSE)
    /\ (pub_pc = filetype /\ pub.want[filetype]
            /\ (pub.force \/ HashDiffers(filetype)) /\ pub_pc' # "raised") =>
           (pub_pc' = "ledger_op" /\ ins'.op = "insert" /\ ins'.filetype = filetype)

\* C8: when the chosen version already exists for a file type, the overwrite
\* confirmation is requested (not with force); if it is declined that type is
\* neither built nor inserted, while the other type, when requested and not
\* itself declined, is built and goes on to be published in the same
\* invocation (it enters insert_version unless its hash guard intervenes or
\* reading the built file fails); with force no confirmation is requested.
C8_OverwriteGuard ==
    /\ [](\A filetype \in FileTypes : C8_State(filetype))
    /\ [][\A filetype \in FileTypes : C8_Step(filetype)]_vars

\* js was declined and css is being inserted in the same invocation
C8_Witness ==
    /\ HasPrompt("overwrite", "js", FALSE)
    /\ pub.req.js /\ pub.req.css
    /\ pub_pc = "ledger_op" /\ ins.op = "insert" /\ ins.filetype = "css"
    /\ CountOf(db_conn, "css") = 1

\* every completed insert_version or reset left the mirror equal to the dump
\* of the committed table, with nothing uncommitted
C9_State ==
    pub_pc # "ledger_op" => (mirror = Dump(db_rows) /\ db_conn = db_rows)

C9_Step ==
    /\ mirror' # mirror => (db_conn = db_rows /\ mirror' = Dump(db_rows))
    /\ db_rows' # db_rows =>
           (pub_pc' = "ledger_op" /\ StepsOf(ins'.op)[ins'.k] = "dump")

\* C9: after every completed insert_version and confirmed reset the mirror
\* equals the dump of the committed table; the dump is taken after the commit
\* (nothing uncommitted is pending when it is written), and every commit of a
\* mutation is followed by the dump within the same operation.
C9_MirrorFollowsCommit == []C9_State /\ [][C9_Step]_vars

\* two rows were inserted and mirrored
C9_Witness ==
    /\ pub_pc = "finish"
    /\ Len(db_rows) = 2
    /\ mirror = Dump(db_rows)
    /\ mirror # Dump(<<>>)

\* C20: in every ledger state reachable from the empty table by publish
\* invocations and resets, no two rows of bundle_version have the same
\* (filetype, version) pair.
C20_NoDuplicateVersionRows ==
    \A i, j \in 1..Len(db_rows) :
        (db_rows[i].filetype = db_rows[j].filetype
         /\ db_rows[i].version = db_rows[j].version) => i = j

-----------------------------------------------------------------------------
(* cli_or_config *)

\* Python values: None, booleans and strings, each with its type
PyNone == [t |-> "none", v |-> "None"]

PyBool(b) == [t |-> "bool", v |-> IF b THEN "True" ELSE "False"]

PyStr(text) == [t |-> "str", v |-> text]

\* shared.truthy: whether a value reads as yes
TruthyTexts == {"True", "true", "1", "y", "Y", "yes", "t"}

truthy(value) == PyBool(value.v \in TruthyTexts)

\* cli_or_config, line 170; the dict is returned too, to show what the call
\* does to it
cli_or_config_config_first(value, config, key, is_bool, default) ==
    [ret |-> IF key \in DOMAIN config THEN config[key]
             ELSE IF value # PyNone THEN (IF is_bool THEN truthy(value) ELSE value)
             ELSE default,
     config |-> config]

cli_or_config(value, config, key, is_bool, default) ==
    [ret |-> IF value # PyNone
             THEN (IF is_bool THEN truthy(value) ELSE value)
             ELSE Get(config, key, default),
     config |-> config]

-----------------------------------------------------------------------------
(* SpecConfig: every call of cli_or_config over bounded inputs *)

ConfigKeys == {"minify", "output_js"}

CliValues == {PyNone, PyBool(TRUE), PyBool(FALSE), PyStr("y"), PyStr("no"),
              PyStr("out.js")}

ConfigValues == {PyNone, PyBool(TRUE), PyBool(FALSE), PyStr("bundle.js")}

Defaults == {PyNone, PyBool(TRUE), PyStr("latest")}

\* the `config` sections: every dict over some of the keys
Configs == UNION {[ks -> ConfigValues] : ks \in SUBSET ConfigKeys}

ConfigIdle ==
    /\ cfg_pc = "off"
    /\ cfg_in = [value |-> PyNone, key |-> "minify", is_bool |-> TRUE,
                 default |-> PyNone]
    /\ cfg_config = EmptyDict
    /\ cfg_out = PyNone

ConfigInit ==
    /\ cfg_pc = "call"
    /\ cfg_in \in [value : CliValues, key : ConfigKeys, is_bool : BOOLEAN,
                   default : Defaults]
    /\ cfg_config \in Configs
    /\ cfg_out = PyNone

CliOrConfig ==
    /\ UNCHANGED othersConfig
    /\ cfg_pc = "call"
    /\ LET r == cli_or_config(cfg_in.value, cfg_config, cfg_in.key, cfg_in.is_bool,
                              cfg_in.default)
       IN  cfg_out' = r.ret /\ cfg_config' = r.config
    /\ cfg_pc' = "done"
    /\ UNCHANGED cfg_in

NextConfig == CliOrConfig

\* C10: cli_or_config returns the CLI value (as a boolean when is_bool)
\* whenever it is not None, else the config's value for the key when the key
\* is in the config, else the default; and it leaves the config as it was.
C10_CliThenConfigThenDefault ==
    /\ [](cfg_pc = "done" =>
            /\ (cfg_in.value # PyNone /\ cfg_in.is_bool) =>
                   (cfg_out = truthy(cfg_in.value) /\ cfg_out.t = "bool")
            /\ (cfg_in.value # PyNone /\ ~cfg_in.is_bool) => cfg_out = cfg_in.value
            /\ (cfg_in.value = PyNone /\ cfg_in.key \in DOMAIN cfg_config) =>
                   cfg_out = cfg_config[cfg_in.key]
            /\ (cfg_in.value = PyNone /\ cfg_in.key \notin DOMAIN cfg_config) =>
                   cfg_out = cfg_in.default)
    /\ [][cfg_config' = cfg_config]_vars

\* --minify no on the command line won over minify: true in the config
C10_Witness ==
    /\ cfg_pc = "done"
    /\ cfg_in.value = PyStr("no") /\ cfg_in.is_bool /\ cfg_in.key = "minify"
    /\ "minify" \in DOMAIN cfg_config /\ cfg_config["minify"] = PyBool(TRUE)
    /\ cfg_out = PyBool(FALSE)

-----------------------------------------------------------------------------
(* SpecVersion: every call of _decide_new_version over bounded inputs *)

\* parts of a previous version: the small ones and the 3-digit boundary
PartSamples == {0, 1, 2, 3, 9, 99, 998, 999}

PreviousRows ==
    {EmptyDict} \cup
    {[major |-> a, minor |-> b, patch |-> c, version |-> FormatVersion(a, b, c)] :
        a \in PartSamples, b \in PartSamples, c \in PartSamples}

VersionAlphabet == {"0", "7", ".", "\n", "x"}

\* longer explicit versions than the exhaustive enumeration reaches
LongVersions ==
    { <<"9", "9", "9", ".", "9", "9", "9", ".", "9", "9", "9">>,
      <<"1", "2", ".", "3", "4", "5", ".", "6">>,
      <<"1", ".", "2", ".", "3", ".", "4">>,
      <<"1", "0", "0", "0", ".", "1", ".", "1">>,
      <<"1", ".", "2", ".", "3", "\n">>,
      <<"1", ".", "2", ".", "3", "\n", "\n">>,
      <<"0", "0", "1", ".", "0", "2", "0">> }

FlagVersions == {NoVersion, <<"1">>, <<"2", ".", "5">>, <<"x">>}

PromptTexts == {<<"3", ".", "1">>, <<"l", "a", "t", "e", "s", "t">>}

PreviousFew ==
    {EmptyDict, [major |-> 2, minor |-> 3, patch |-> 1, version |-> FormatVersion(2, 3, 1)]}

VerInit ==
    /\ ver_pc = "call"
    /\ ver_out = [kind |-> "none"]
    /\ \/ \* every combination of the selectors, every sampled previous row
          /\ \E v \in FlagVersions, ma \in BOOLEAN, mi \in BOOLEAN, pa \in BOOLEAN,
                prev \in PreviousRows :
                ver_in = [version |-> v, major |-> ma, minor |-> mi, patch |-> pa,
                          previous |-> prev]
          /\ ver_typed \in PromptTexts
       \/ \* an explicit version only: every short text, and the long samples
          /\ \E v \in (TextsUpTo(VersionAlphabet, MaxVerLen) \cup LongVersions),
                prev \in PreviousFew :
                ver_in = [version |-> v, major |-> FALSE, minor |-> FALSE,
                          patch |-> FALSE, previous |-> prev]
          /\ ver_typed \in PromptTexts

DecideNewVersion ==
    /\ UNCHANGED othersVer
    /\ ver_pc = "call"
    /\ ver_out' = _decide_new_version(ver_in.major, ver_in.minor, ver_in.patch,
                                      ver_in.previous, ver_in.version, ver_typed)
    /\ ver_pc' = "done"
    /\ UNCHANGED <<ver_in, ver_typed>>

NextVersion == DecideNewVersion


-----------------------------------------------------------------------------
(* Claims about _decide_new_version *)

\* how many of the four selectors are set
NumSelectors ==
    Cardinality({i \in 1..4 :
        <<Truthy(ver_in.version), ver_in.major, ver_in.minor, ver_in.patch>>[i]})

\* C4: whenever two or more of {version, major, minor, patch} are set the call
\* raises "specify only one of" and returns no version; a version is computed
\* without prompting only when exactly one selector is set.
C4_TwoOrMoreIsError ==
    ver_pc = "done" =>
        /\ NumSelectors >= 2 => ver_out.kind = "only_one"
        /\ (ver_out.kind = "ok" /\ ~ver_out.prompted) => NumSelectors = 1

\* the parts of the previous latest version ((0,0,0) when there is no row)
PrevPart(key) == Get(ver_in.previous, key, 0)

OnlyFlag(flag) ==
    /\ ~Truthy(ver_in.version)
    /\ ver_in.major = (flag = "major")
    /\ ver_in.minor = (flag = "minor")
    /\ ver_in.patch = (flag = "patch")

Returned(a, b, c) ==
    /\ ver_out.kind = "ok"
    /\ ~ver_out.prompted
    /\ <<ver_out.major, ver_out.minor, ver_out.patch>> = <<a, b, c>>
    /\ ver_out.version = FormatVersion(a, b, c)

\* the largest value of a part of 1 to 3 digits
MaxPart == 10^MaxDigits - 1

PartsFit == \A key \in {"major", "minor", "patch"} : PrevPart(key) \in 0..MaxPart

\* C5 as stated: for every previous (M, m, p) with parts of 1 to 3 digits, one
\* bump flag returns (M+1,0,0), (M,m+1,0) or (M,m,p+1) and the matching text.
C5_BumpAlwaysReturns ==
    (ver_pc = "done" /\ PartsFit) =>
        /\ OnlyFlag("major") => Returned(PrevPart("major") + 1, 0, 0)
        /\ OnlyFlag("minor") => Returned(PrevPart("major"), PrevPart("minor") + 1, 0)
        /\ OnlyFlag("patch") =>
               Returned(PrevPart("major"), PrevPart("minor"), PrevPart("patch") + 1)

\* C5 amended: the same, provided the bumped part is below 999; when the
\* bumped part is 999 the bumped text has a 4-digit part and the call raises
\* the invalid-version error instead of returning.
C5_BumpReturnsBelowLimit ==
    (ver_pc = "done" /\ PartsFit) =>
        /\ (OnlyFlag("major") /\ PrevPart("major") < MaxPart) =>
               Returned(PrevPart("major") + 1, 0, 0)
        /\ (OnlyFlag("minor") /\ PrevPart("minor") < MaxPart) =>
               Returned(PrevPart("major"), PrevPart("minor") + 1, 0)
        /\ (OnlyFlag("patch") /\ PrevPart("patch") < MaxPart) =>
               Returned(PrevPart("major"), PrevPart("minor"), PrevPart("patch") + 1)
        /\ \A flag \in {"major", "minor", "patch"} :
               (OnlyFlag(flag) /\ PrevPart(flag) = MaxPart) => ver_out.kind = "invalid"

\* previous 2.3.1 and --minor gave 2.4.0
C5_Witness ==
    /\ ver_pc = "done"
    /\ OnlyFlag("minor")
    /\ <<PrevPart("major"), PrevPart("minor"), PrevPart("patch")>> = <<2, 3, 1>>
    /\ Returned(2, 4, 0)
    /\ ver_out.version = <<"2", ".", "4", ".", "0">>

\* the parts of a text between its dots
RECURSIVE SplitDots(_)
SplitDots(s) ==
    IF \A i \in 1..Len(s) : s[i] # "." THEN <<s>>
    ELSE LET d == CHOOSE i \in 1..Len(s) :
                      s[i] = "." /\ \A j \in 1..(i - 1) : s[j] # "."
         IN  <<SubSeq(s, 1, d - 1)>> \o SplitDots(SubSeq(s, d + 1, Len(s)))

\* one to three dot-separated parts of 1 to 3 digits each
WellFormedVersion(s) ==
    LET ps == SplitDots(s)
    IN  /\ Len(ps) \in 1..3
        /\ \A i \in 1..Len(ps) :
               /\ Len(ps[i]) \in 1..MaxDigits
               /\ \A j \in 1..Len(ps[i]) : IsDigit(ps[i][j])

\* the three numbers of a well-formed version, missing trailing parts 0
PartOf(s, i) ==
    LET ps == SplitDots(s) IN IF i <= Len(ps) THEN StrToInt(ps[i]) ELSE 0

OnlyVersion ==
    Truthy(ver_in.version) /\ ~ver_in.major /\ ~ver_in.minor /\ ~ver_in.patch

\* C6: an explicit version alone is accepted exactly when it is one to three
\* dot-separated parts of 1 to 3 digits; it is returned normalised to three
\* parts whatever the previous version; every other text raises the
\* invalid-version error.
C6_ExplicitAcceptedExactlyWhenWellFormed ==
    (ver_pc = "done" /\ OnlyVersion) =>
        IF WellFormedVersion(ver_in.version)
        THEN Returned(PartOf(ver_in.version, 1), PartOf(ver_in.version, 2),
                      PartOf(ver_in.version, 3))
        ELSE ver_out.kind = "invalid"

-----------------------------------------------------------------------------
(* _fill_variables and _regexify_settings *)

\* a dict keeps insertion order: a sequence of [key, value] with distinct keys
HasKey(dict, key) == \E i \in 1..Len(dict) : dict[i].key = key

Lookup(dict, key) ==
    dict[CHOOSE i \in 1..Len(dict) : dict[i].key = key].value

\* "$" in str(setting), line 197
Contains(text, ch) == \E i \in 1..Len(text) : text[i] = ch

\* the pattern matches the text at position i
MatchesAt(text, pat, i) ==
    /\ i + Len(pat) - 1 <= Len(text)
    /\ SubSeq(text, i, i + Len(pat) - 1) = pat

\* reg.sub(repl, text) for a pattern that is a literal text: the leftmost
\* non-overlapping matches are replaced, what replaces them is not rescanned
RECURSIVE re_sub_from(_, _, _, _)
re_sub_from(pat, repl, text, i) ==
    IF i > Len(text) THEN <<>>
    ELSE IF MatchesAt(text, pat, i)
         THEN repl \o re_sub_from(pat, repl, text, i + Len(pat))
         ELSE <<text[i]>> \o re_sub_from(pat, repl, text, i + 1)

re_sub(pat, repl, text) == re_sub_from(pat, repl, text, 1)

\* _regexify_settings, lines 206-210: re.compile(rf"\${key}") for every key;
\* the keys of the model are plain names, so the pattern is the text "$" + key
_regexify_settings(setting_dict) ==
    [i \in 1..Len(setting_dict) |->
        [reg |-> <<"$">> \o setting_dict[i].key, repl |-> setting_dict[i].value]]

\* lines 200-201: one reg.sub after the other, in the order of the dict
RECURSIVE fill_loop(_, _, _)
fill_loop(text, variables, k) ==
    IF k > Len(variables) THEN text
    ELSE fill_loop(re_sub(variables[k].reg, variables[k].repl, text),
                   variables, k + 1)

\* a setting is a text [t |-> "str"] or a dict of settings [t |-> "dict"]
SettingStr(text) == [t |-> "str", v |-> text]

SettingDict(d) == [t |-> "dict", items |-> d]

\* _fill_variables, lines 188-203
RECURSIVE _fill_variables(_, _)
_fill_variables(setting, variables) ==
    IF setting.t = "dict"
    THEN SettingDict([i \in 1..Len(setting.items) |->
                         [key |-> setting.items[i].key,
                          value |-> _fill_variables(setting.items[i].value,
                                                    variables)]])
    ELSE IF ~Contains(setting.v, "$") THEN setting
    ELSE SettingStr(fill_loop(setting.v, variables, 1))

-----------------------------------------------------------------------------
(* SpecFill: every call of _fill_variables over bounded inputs *)

\* the longest setting text enumerated
MaxFillLen == 4

FillAlphabet == {"$", "a", "b", "/"}

\* the variable tables: at most two names, one a prefix of another, values
\* that are plain or hold a `$name` themselves
FillKeys == { <<"a">>, <<"b">>, <<"a", "b">> }

FillValues == { <<"x">>, <<"y", "/">>, <<"$", "b">> }

FillPairs == [key : FillKeys, value : FillValues]

FillTables ==
    { <<>> } \cup { <<p>> : p \in FillPairs }
    \cup { t \in FillPairs \X FillPairs : t[1].key # t[2].key }

\* a few nested settings: a dict holding texts and a dict
FillDicts ==
    { SettingDict(<<[key |-> <<"a">>, value |-> SettingStr(<<"$", "a", "/", "$", "b">>)],
                    [key |-> <<"n">>,
                     value |-> SettingDict(<<[key |-> <<"b">>,
                                              value |-> SettingStr(inner)]>>)]>>)
      : inner \in { <<"$", "a">>, <<"a">>, <<"$", "a", "b">> } }

FillSettings == { SettingStr(text) : text \in TextsUpTo(FillAlphabet, MaxFillLen) }
                \cup FillDicts

FillIdle ==
    /\ fill_pc = "off"
    /\ fill_in = [setting |-> SettingStr(<<>>), settings |-> <<>>]
    /\ fill_out = SettingStr(<<>>)

FillInit ==
    /\ fill_pc = "call"
    /\ fill_in \in [setting : FillSettings, settings : FillTables]
    /\ fill_out = SettingStr(<<>>)

\* lines 246-249: the table is built from the settings, then applied
FillVariables ==
    /\ UNCHANGED othersFill
    /\ fill_pc = "call"
    /\ fill_out' = _fill_variables(fill_in.setting,
                                   _regexify_settings(fill_in.settings))
    /\ fill_pc' = "done"
    /\ UNCHANGED fill_in

NextFill == FillVariables

-----------------------------------------------------------------------------
(* Claims about _fill_variables *)

NameChars == {"a", "b", "n"}

\* the last position of the name that starts at position i (i - 1: no name)
RECURSIVE NameEnd(_, _)
NameEnd(text, i) ==
    IF i <= Len(text) /\ text[i] \in NameChars THEN NameEnd(text, i + 1)
    ELSE i - 1

\* token by token: a `$name` whose full name is a key becomes the value of
\* the key, every other character stays
RECURSIVE TokenFill(_, _, _)
TokenFill(text, table, i) ==
    IF i > Len(text) THEN <<>>
    ELSE IF text[i] = "$"
         THEN LET name == SubSeq(text, i + 1, NameEnd(text, i + 1))
              IN  (IF HasKey(table, name) THEN Lookup(table, name)
                   ELSE <<"$">> \o name)
                  \o TokenFill(text, table, i + 1 + Len(name))
         ELSE <<text[i]>> \o TokenFill(text, table, i + 1)

\* C11: _fill_variables replaces each `$name` whose name is a key of the table
\* by the value of that key and leaves every `$name` token whose full name is
\* not a key verbatim; a text without `$` is returned unchanged.
C11_FillReplacesWholeNames ==
    (fill_pc = "done" /\ fill_in.setting.t = "str") =>
        fill_out = SettingStr(TokenFill(fill_in.setting.v, fill_in.settings, 1))

-----------------------------------------------------------------------------
(* The classification of a manifest entry: extract_contents_for_js (js.py) *)
(* and load_css_contents (css.py)                                          *)

\* str.startswith and str.endswith
StartsWith(text, prefix) ==
    Len(prefix) <= Len(text) /\ SubSeq(text, 1, Len(prefix)) = prefix

EndsWith(text, suffix) ==
    /\ Len(suffix) <= Len(text)
    /\ SubSeq(text, Len(text) - Len(suffix) + 1, Len(text)) = suffix

StartsWithAny(text, prefixes) == \E p \in prefixes : StartsWith(text, p)

EndsWithAny(text, suffixes) == \E s \in suffixes : EndsWith(text, s)

UrlPrefixes == { <<"H", "T", "T", "P">>, <<"H", "T", "T", "P", "S">> }

\* js.py line 78
JsLocalSuffixes == { <<".", "j", "s">>, <<".", "_", "h", "s">>, <<".", "h", "t", "m", "l">>, <<".", "h", "t", "m">> }

\* js.py line 81
TsSuffix == <<".", "t", "s">>

\* js.py line 83
JsRawPrefixes == { <<"_", "(">>, <<"/", "/">>, <<"/", "*">>, <<"_", "h", "y", "p", "e", "r", "s", "c", "r", "i", "p", "t", "(">> }

\* css.py line 93
CssLocalSuffixes == { <<".", "c", "s", "s">>, <<".", "s", "c", "s", "s">>, <<".", "s", "a", "s", "s">> }

\* css.py line 96
CssRawPrefixes == { <<"/", "/">>, <<"/", "*">> }

\* the text of the NotImplementedError, js.py lines 87-89 and css.py lines
\* 100-103
UnrecognizedMessage(file) ==
    <<"File type of ">> \o file
    \o <<" could not be identified. If you want to add inline code, add a comment at the top of the block.">>

\* extract_contents_for_js, lines 75-89: where the contents come from
classify_js(file) ==
    IF StartsWithAny(file, UrlPrefixes) THEN [how |-> "cdn", message |-> <<>>]
    ELSE IF EndsWithAny(file, JsLocalSuffixes) THEN [how |-> "local", message |-> <<>>]
    ELSE IF EndsWith(file, TsSuffix) THEN [how |-> "typescript", message |-> <<>>]
    ELSE IF StartsWithAny(file, JsRawPrefixes) THEN [how |-> "raw", message |-> <<>>]
    ELSE [how |-> "NotImplementedError", message |-> UnrecognizedMessage(file)]

\* load_css_contents, lines 89-103
load_css_contents(file) ==
    IF StartsWithAny(file, UrlPrefixes) THEN [how |-> "cdn", message |-> <<>>]
    ELSE IF EndsWithAny(file, CssLocalSuffixes) THEN [how |-> "local", message |-> <<>>]
    ELSE IF StartsWithAny(file, CssRawPrefixes) THEN [how |-> "raw", message |-> <<>>]
    ELSE [how |-> "NotImplementedError", message |-> UnrecognizedMessage(file)]

Classify(callback, file) ==
    IF callback = "js" THEN classify_js(file) ELSE load_css_contents(file)

-----------------------------------------------------------------------------
(* SpecKind: the loop of _handle_files over entries of every shape *)

\* longest manifest handed to the loop
MaxKindFiles == 2

Identifiers ==
    { <<"h", "t", "t", "p", ":", "/", "/", "x">>, <<"h", "t", "t", "p", "s", ":", "/", "/", "x", ".", "c", "s", "s">>, <<"a", ".", "j", "s">>, <<"a", ".", "c", "s", "s">>, <<"a", ".", "s", "c", "s", "s">>, <<"a", ".", "s", "a", "s", "s">>,
      <<"a", ".", "t", "s">>, <<"a", ".", "_", "h", "s">>, <<"a", ".", "h", "t", "m", "l">>, <<"a", ".", "h", "t", "m">>,
      <<"/", "/", "x">>, <<"/", "*", "x">>, <<"_", "(", "x">>, <<"_", "h", "y", "p", "e", "r", "s", "c", "r", "i", "p", "t", "(", "x">>,
      <<"a", ".", "t", "x", "t">>, <<"a">>, <<"j", "s">>, <<>> }

KindIdle ==
    /\ kind_pc = "off"
    /\ kind_in = [callback |-> "js", files |-> <<>>]
    /\ kind_loaded = <<>>
    /\ kind_err = <<>>

KindInit ==
    /\ kind_pc = "loop"
    /\ kind_in \in [callback : {"js", "css"},
                    files : TextsUpTo(Identifiers, MaxKindFiles)]
    /\ kind_loaded = <<>>
    /\ kind_err = <<>>

\* bundler_plugin.py lines 277-278: the callback is called on the next entry;
\* its NotImplementedError leaves the loop and _handle_files
Kind_Entry ==
    /\ UNCHANGED othersKind
    /\ kind_pc = "loop"
    /\ Len(kind_loaded) < Len(kind_in.files)
    /\ LET file == kind_in.files[Len(kind_loaded) + 1]
           c == Classify(kind_in.callback, file)
       IN  IF c.how = "NotImplementedError"
           THEN /\ kind_pc' = "failed"
                /\ kind_err' = c.message
                /\ UNCHANGED kind_loaded
           ELSE /\ kind_loaded' = Append(kind_loaded, [file |-> file, how |-> c.how])
                /\ UNCHANGED <<kind_pc, kind_err>>
    /\ UNCHANGED kind_in

\* lines 283-295: every entry was handled
Kind_Finish ==
    /\ UNCHANGED othersKind
    /\ kind_pc = "loop"
    /\ Len(kind_loaded) = Len(kind_in.files)
    /\ kind_pc' = "done"
    /\ UNCHANGED <<kind_in, kind_loaded, kind_err>>

NextKind == Kind_Entry \/ Kind_Finish

-----------------------------------------------------------------------------
(* Claims about the classification *)

KnownSuffixes ==
    { <<".", "j", "s">>, <<".", "c", "s", "s">>, <<".", "s", "c", "s", "s">>, <<".", "s", "a", "s", "s">>, <<".", "t", "s">>, <<".", "_", "h", "s">>, <<".", "h", "t", "m", "l">>, <<".", "h", "t", "m">> }

RawMarkers(callback) == IF callback = "js" THEN JsRawPrefixes ELSE CssRawPrefixes

RecognizedShape(callback, file) ==
    \/ StartsWithAny(file, UrlPrefixes)
    \/ EndsWithAny(file, KnownSuffixes)
    \/ StartsWithAny(file, RawMarkers(callback))

\* the message holds the identifier
Names(message, file) ==
    \E i \in 1..(Len(message) + 1) : MatchesAt(message, file, i)

\* the first entry of no recognized shape (0: there is none)
FirstUnrecognized ==
    IF \E i \in 1..Len(kind_in.files) : ~RecognizedShape(kind_in.callback, kind_in.files[i])
    THEN CHOOSE i \in 1..Len(kind_in.files) :
             /\ ~RecognizedShape(kind_in.callback, kind_in.files[i])
             /\ \A j \in 1..(i - 1) : RecognizedShape(kind_in.callback, kind_in.files[j])
    ELSE 0

-----------------------------------------------------------------------------
(* The generated wrappers of js.py: _include_hyperscript, _append_to_dom,   *)
(* _append_to_head                                                         *)

\* the backtick character (U+0060), which a TLA+ string cannot hold
Backtick == "BACKTICK"

\* str.replace(old, new): every non-overlapping occurrence, left to right
str_replace(text, old, new) == re_sub_from(old, new, text, 1)

\* the chain of replace calls of lines 120 and 137
escape_all(contents) ==
    str_replace(
        str_replace(
            str_replace(
                str_replace(contents, <<"\\">>, <<"\\", "\\">>),
                <<Backtick>>, <<"\\", Backtick>>),
            <<"$">>, <<"\\", "$">>),
        <<"{">>, <<"\\", "{">>)

\* the replace call of line 129
escape_backtick(contents) == str_replace(contents, <<Backtick>>, <<"\\", Backtick>>)

HyperscriptOpen == <<"_", "h", "y", "p", "e", "r", "s", "c", "r", "i", "p", "t", "(", Backtick>>

HyperscriptClose == <<Backtick, ")">>

DomOpen == <<"d", "o", "c", "u", "m", "e", "n", "t", ".", "b", "o", "d", "y", ".", "i", "n", "n", "e", "r", "H", "T", "M", "L", " ", "+", "=", " ", Backtick>>

DomClose == <<Backtick>>

HeadOpen == <<"d", "o", "c", "u", "m", "e", "n", "t", ".", "h", "e", "a", "d", ".", "i", "n", "n", "e", "r", "H", "T", "M", "L", " ", "+", "=", " ", Backtick, "<", "s", "t", "y", "l", "e", ">">>

HeadClose == <<"<", "/", "s", "t", "y", "l", "e", ">", Backtick>>

\* lines 116-122
_include_hyperscript(contents) ==
    HyperscriptOpen \o escape_all(contents) \o HyperscriptClose

\* lines 125-130
_append_to_dom(html) == DomOpen \o escape_backtick(html) \o DomClose

\* lines 133-138
_append_to_head(css) == HeadOpen \o escape_all(css) \o HeadClose

Wrappers == {"_include_hyperscript", "_append_to_dom", "_append_to_head"}

Wrap(wrapper, contents) ==
    IF wrapper = "_include_hyperscript" THEN _include_hyperscript(contents)
    ELSE IF wrapper = "_append_to_dom" THEN _append_to_dom(contents)
    ELSE _append_to_head(contents)

-----------------------------------------------------------------------------
(* SpecWrap: every wrapper over every short content *)

\* longest content enumerated
MaxWrapLen == 3

WrapAlphabet == {"\\", Backtick, "$", "{", "a"}

WrapIdle ==
    /\ wrap_pc = "off"
    /\ wrap_in = [wrapper |-> "_append_to_dom", contents |-> <<>>]
    /\ wrap_out = <<>>

WrapInit ==
    /\ wrap_pc = "call"
    /\ wrap_in \in [wrapper : Wrappers,
                    contents : TextsUpTo(WrapAlphabet, MaxWrapLen)]
    /\ wrap_out = <<>>

\* lines 97, 99 and 105 of extract_contents_for_js: the contents are wrapped
WrapContents ==
    /\ UNCHANGED othersWrap
    /\ wrap_pc = "call"
    /\ wrap_out' = Wrap(wrap_in.wrapper, wrap_in.contents)
    /\ wrap_pc' = "done"
    /\ UNCHANGED wrap_in

NextWrap == WrapContents

-----------------------------------------------------------------------------
(* Claims about the wrappers *)

SpecialChars == {"\\", Backtick, "$", "{"}

\* what stands between the opening and the closing of the wrapper
WrapOpen(wrapper) ==
    IF wrapper = "_include_hyperscript" THEN HyperscriptOpen
    ELSE IF wrapper = "_append_to_dom" THEN DomOpen
    ELSE HeadOpen

WrapClose(wrapper) ==
    IF wrapper = "_include_hyperscript" THEN HyperscriptClose
    ELSE IF wrapper = "_append_to_dom" THEN DomClose
    ELSE HeadClose

Embedded ==
    SubSeq(wrap_out, Len(WrapOpen(wrap_in.wrapper)) + 1,
           Len(wrap_out) - Len(WrapClose(wrap_in.wrapper)))

\* reading a backtick literal: a backslash takes the next character with it;
\* an unescaped backtick, `$` or `{` ends or interpolates the literal. The
\* characters the literal stands for, or "broken".
RECURSIVE ReadLiteral(_, _)
ReadLiteral(text, i) ==
    IF i > Len(text) THEN <<>>
    ELSE IF text[i] = "\\"
         THEN IF i = Len(text) THEN <<"broken">>
              ELSE <<text[i + 1]>> \o ReadLiteral(text, i + 2)
         ELSE IF text[i] \in SpecialChars THEN <<"broken">>
              ELSE <<text[i]>> \o ReadLiteral(text, i + 1)

\* C17: for each of the three wrappers and every content, each backslash,
\* backtick, `$` and `{` of the content is preceded by an escaping backslash
\* in the output, so the backtick literal reads back as the content and is
\* neither ended nor interpolated by it.
C17_WrappersEscapeContent ==
    wrap_pc = "done" =>
        /\ StartsWith(wrap_out, WrapOpen(wrap_in.wrapper))
        /\ EndsWith(wrap_out, WrapClose(wrap_in.wrapper))
        /\ ReadLiteral(Embedded, 1) = wrap_in.contents

-----------------------------------------------------------------------------
(* The TypeScript inliner and the module loader of js.py *)

\* the longest dependency list of a module
MaxDeps == 2

\* the .ts files of the directory, by module name
TsModules == {"m", "a", "b"}

\* an entry that is no .ts file
OtherEntry == "o.js"

\* the pieces a bundle text is made of
Piece(t, of) == [t |-> t, of |-> of]

\* the text of js/ts_loader.js
LoaderCode == Piece("loader", "ts_loader.js")

\* a line break
NL == Piece("newline", "")

\* dukpy.typescript_compile of the file of a module, line 35
Compiled(name) == Piece("compiled", name)

\* line 36: f"__namespace__ = '{(name or '__main__')}'\n"
Namespace(name) == <<Piece("namespace", name), NL>>

\* the contents of an entry that is no .ts file
OtherContents == <<Piece("contents", OtherEntry)>>

\* LOADER_KEY, line 54
LOADER_KEY == <<"__loader_code_included_once__">>

\* line 39
DependencyKey(dep) == <<"__typescript_dependency_", dep, "__">>

\* include_typescript_system_loader, lines 57-66: the snippet and the
\* settings afterwards
include_typescript_system_loader_always(settings) ==
    [code |-> <<LoaderCode>>, settings |-> settings \cup {LOADER_KEY}]

include_typescript_system_loader(settings) ==
    IF LOADER_KEY \in settings THEN [code |-> <<>>, settings |-> settings]
    ELSE [code |-> <<LoaderCode>>, settings |-> settings \cup {LOADER_KEY}]

\* line 44: settings[key] = True, before the recursion of line 47
MarkInlined_never(settings, key) == settings

MarkInlined(settings, key) == settings \cup {key}

\* lines 31-36 of one call: the module is compiled, its loop begins; name is
\* None for an entry and the dependency name otherwise
Frame(module, name) ==
    [name |-> module, k |-> 1, js_code |-> Namespace(name) \o <<Compiled(module)>>]

\* line 49: js_code = dep_code + "\n" + js_code
Prepend(dep_code, js_code) == dep_code \o <<NL>> \o js_code

\* the recursion cannot be deeper than the entry and one call per name; the
\* guard keeps a variant that never marks a name finite
MaxDepth == Cardinality(TsModules) + 2

-----------------------------------------------------------------------------
(* SpecTs: one bundle build over .ts entries, every dependency graph *)

DepLists ==
    { s \in TextsUpTo(TsModules, MaxDeps) :
          \A i, j \in 1..Len(s) : s[i] = s[j] => i = j }

TsManifests ==
    { <<"m">>, <<OtherEntry, "m">>, <<"m", "a">>, <<"m", OtherEntry, "b">> }

TsIdle ==
    /\ ts_graph = [n \in TsModules |-> <<>>]
    /\ ts_files = <<>>
    /\ ts_settings = {}
    /\ ts_stack = <<>>
    /\ ts_loader = <<>>
    /\ ts_out = <<>>
    /\ ts_compiled = <<>>
    /\ ts_pc = "off"

TsInit ==
    /\ ts_graph \in [TsModules -> DepLists]
    /\ ts_files \in TsManifests
    /\ ts_settings = {}
    /\ ts_stack = <<>>
    /\ ts_loader = <<>>
    /\ ts_out = <<>>
    /\ ts_compiled = <<>>
    /\ ts_pc = "loop"

\* the entry the loop of _handle_files is at
TsEntry == ts_files[Len(ts_out) + 1]

\* the innermost call and the dependency its loop is at
TsTop == ts_stack[Len(ts_stack)]

TsDeps == ts_graph[TsTop.name]

\* an entry that extract_contents_for_js does not hand to the inliner
Ts_OtherEntry ==
    /\ UNCHANGED othersTs
    /\ ts_pc = "loop"
    /\ Len(ts_out) < Len(ts_files)
    /\ TsEntry = OtherEntry
    /\ ts_out' = Append(ts_out, OtherContents)
    /\ UNCHANGED <<ts_graph, ts_files, ts_settings, ts_stack, ts_loader,
                   ts_compiled, ts_pc>>

\* js.py line 82, left operand first: the loader, then the call of
\* extract_contents_typescript(file, settings) with name None
Ts_TsEntry ==
    /\ UNCHANGED othersTs
    /\ ts_pc = "loop"
    /\ Len(ts_out) < Len(ts_files)
    /\ TsEntry \in TsModules
    /\ ts_settings' = include_typescript_system_loader(ts_settings).settings
    /\ ts_loader' = include_typescript_system_loader(ts_settings).code
    /\ ts_stack' = <<Frame(TsEntry, "__main__")>>
    /\ ts_compiled' = Append(ts_compiled, [name |-> TsEntry, dep |-> FALSE])
    /\ ts_pc' = "ts"
    /\ UNCHANGED <<ts_graph, ts_files, ts_out>>

\* lines 38-42: the key is in settings, continue
Ts_SkipDep ==
    /\ UNCHANGED othersTs
    /\ ts_pc = "ts"
    /\ TsTop.k <= Len(TsDeps)
    /\ DependencyKey(TsDeps[TsTop.k]) \in ts_settings
    /\ ts_stack' = [ts_stack EXCEPT ![Len(ts_stack)].k = @ + 1]
    /\ UNCHANGED <<ts_graph, ts_files, ts_settings, ts_loader, ts_out,
                   ts_compiled, ts_pc>>

\* lines 44-47: the key is set, the dependency is read and compiled
Ts_InlineDep ==
    /\ UNCHANGED othersTs
    /\ ts_pc = "ts"
    /\ TsTop.k <= Len(TsDeps)
    /\ DependencyKey(TsDeps[TsTop.k]) \notin ts_settings
    /\ Len(ts_stack) < MaxDepth
    /\ ts_settings' = MarkInlined(ts_settings, DependencyKey(TsDeps[TsTop.k]))
    /\ ts_stack' = Append(ts_stack, Frame(TsDeps[TsTop.k], TsDeps[TsTop.k]))
    /\ ts_compiled' = Append(ts_compiled, [name |-> TsDeps[TsTop.k], dep |-> TRUE])
    /\ UNCHANGED <<ts_graph, ts_files, ts_loader, ts_out, ts_pc>>

\* lines 51 and 49: the call for a dependency returns into the loop of its
\* caller
Ts_ReturnDep ==
    /\ UNCHANGED othersTs
    /\ ts_pc = "ts"
    /\ TsTop.k > Len(TsDeps)
    /\ Len(ts_stack) > 1
    /\ ts_stack' =
           [SubSeq(ts_stack, 1, Len(ts_stack) - 1)
               EXCEPT ![Len(ts_stack) - 1] =
                   [@ EXCEPT !.js_code = Prepend(TsTop.js_code, @), !.k = @ + 1]]
    /\ UNCHANGED <<ts_graph, ts_files, ts_settings, ts_loader, ts_out,
                   ts_compiled, ts_pc>>

\* line 51 of the outermost call and line 82: loader + code is the contents
\* of the entry
Ts_ReturnEntry ==
    /\ UNCHANGED othersTs
    /\ ts_pc = "ts"
    /\ TsTop.k > Len(TsDeps)
    /\ Len(ts_stack) = 1
    /\ ts_out' = Append(ts_out, ts_loader \o TsTop.js_code)
    /\ ts_stack' = <<>>
    /\ ts_loader' = <<>>
    /\ ts_pc' = "loop"
    /\ UNCHANGED <<ts_graph, ts_files, ts_settings, ts_compiled>>

\* every entry was handled
Ts_Finish ==
    /\ UNCHANGED othersTs
    /\ ts_pc = "loop"
    /\ Len(ts_out) = Len(ts_files)
    /\ ts_pc' = "done"
    /\ UNCHANGED <<ts_graph, ts_files, ts_settings, ts_stack, ts_loader,
                   ts_out, ts_compiled>>

NextTs ==
    \/ Ts_OtherEntry
    \/ Ts_TsEntry
    \/ Ts_SkipDep
    \/ Ts_InlineDep
    \/ Ts_ReturnDep
    \/ Ts_ReturnEntry
    \/ Ts_Finish

-----------------------------------------------------------------------------
(* Claims about the TypeScript inliner and the loader *)

\* the bundle: line 279 writes res + "\n" for every entry
RECURSIVE BundleText(_, _)
BundleText(results, i) ==
    IF i > Len(results) THEN <<>>
    ELSE results[i] \o <<NL>> \o BundleText(results, i + 1)

TsBundle == BundleText(ts_out, 1)

PositionsOf(text, piece) == {i \in 1..Len(text) : text[i] = piece}

DependsOn(p, d) == \E k \in 1..Len(ts_graph[p]) : ts_graph[p][k] = d

\* p reaches d along at most n dependency edges
RECURSIVE Reaches(_, _, _)
Reaches(p, d, n) ==
    /\ n > 0
    /\ \/ DependsOn(p, d)
       \/ \E q \in TsModules : DependsOn(p, q) /\ Reaches(q, d, n - 1)

Acyclic == \A p \in TsModules : ~Reaches(p, p, Cardinality(TsModules))

\* the modules whose code is in the bundle
CodeOf(p) == PositionsOf(TsBundle, Compiled(p))

Bundled == {p \in TsModules : CodeOf(p) # {}}

\* C12: for every acyclic dependency graph and every order of the declared
\* lists, a dependency referenced by two different modules of the bundle is in
\* the output exactly once, before the code of every module that depends on it.
C12_SharedDependencyOnceAndFirst ==
    (ts_pc = "done" /\ Acyclic) =>
        \A d \in TsModules :
            (\E p, q \in Bundled : p # q /\ DependsOn(p, d) /\ DependsOn(q, d)) =>
                /\ Cardinality(CodeOf(d)) = 1
                /\ \A p \in Bundled : DependsOn(p, d) =>
                       \A i \in CodeOf(d), j \in CodeOf(p) : i < j

\* the entries handled so far that went to the inliner
TsEntriesDone == {i \in 1..Len(ts_out) : ts_files[i] \in TsModules}

FirstTsEntry(i) == i \in TsEntriesDone /\ \A j \in TsEntriesDone : i <= j

\* C13: in one build with at least one .ts entry the loader snippet is
\* emitted exactly once, as the prefix of the output of the first .ts entry,
\* before all compiled TypeScript of the bundle; later .ts entries get an
\* empty loader.
C13_LoaderOncePerBundle ==
    /\ \A i \in 1..Len(ts_out) :
           IF FirstTsEntry(i)
           THEN PositionsOf(ts_out[i], LoaderCode) = {1}
           ELSE PositionsOf(ts_out[i], LoaderCode) = {}
    /\ \A i \in PositionsOf(TsBundle, LoaderCode), p \in TsModules :
           \A j \in CodeOf(p) : i < j
    /\ (ts_pc = "done" /\ \E i \in 1..Len(ts_files) : ts_files[i] \in TsModules) =>
           Cardinality(PositionsOf(TsBundle, LoaderCode)) = 1

\* two .ts entries with another entry between them were built
C13_Witness ==
    /\ ts_pc = "done"
    /\ ts_files = <<"m", OtherEntry, "b">>
    /\ ts_out[1] = <<LoaderCode>> \o Namespace("__main__") \o <<Compiled("m")>>
    /\ ts_out[3] = Namespace("__main__") \o <<Compiled("b")>>

\* a call for a dependency begins only with the key of its name in settings
C19_Step ==
    Len(ts_stack') > Len(ts_stack) /\ Len(ts_stack) >= 1 =>
        /\ DependencyKey(ts_stack'[Len(ts_stack')].name) \in ts_settings'
        /\ DependencyKey(ts_stack'[Len(ts_stack')].name) \notin ts_settings

CompiledAsDependency(name) ==
    {i \in 1..Len(ts_compiled) : ts_compiled[i] = [name |-> name, dep |-> TRUE]}

\* C19: for every set of modules with arbitrary dependency edges, cycles and
\* self-references included, extract_contents_typescript terminates; a name
\* is marked before the recursion into it, a name met again is skipped, and
\* each name is compiled as a dependency at most once per bundle.
C19_InliningTerminates ==
    /\ <>(ts_pc = "done")
    /\ [](\A name \in TsModules : Cardinality(CompiledAsDependency(name)) <= 1)
    /\ [](ts_pc = "ts" => Len(ts_stack) < MaxDepth)
    /\ [][C19_Step]_vars

\* a build over a self-reference and a cycle between a and b came to its end
C19_Witness ==
    /\ ts_pc = "done"
    /\ ts_files = <<"m">>
    /\ ts_graph["m"] = <<"m", "a">>
    /\ ts_graph["a"] = <<"b">>
    /\ ts_graph["b"] = <<"a", "m">>
    /\ ts_out = << <<LoaderCode>>
                   \o Namespace("b") \o <<Compiled("b"), NL>>
                   \o Namespace("a") \o <<Compiled("a"), NL>>
                   \o Namespace("m") \o <<Compiled("m"), NL>>
                   \o Namespace("__main__") \o <<Compiled("m")>> >>

-----------------------------------------------------------------------------
(* css.py: extract_contents_for_css and convert_scss *)

\* a dict of variables: a function from the names it holds to their values
NoVariables == <<>>

\* dict |= dict, line 124: the keys of the right side win
Override(variables, block_variables) ==
    [k \in (DOMAIN variables) \cup (DOMAIN block_variables) |->
        IF k \in DOMAIN block_variables THEN block_variables[k] ELSE variables[k]]

\* a dict is true when it holds a key; a text when it is not empty
NonEmpty(value) == DOMAIN value # {}

\* settings.get("scss_variables", {}), line 117. The setting is absent, a
\* dict written in the config ("inline"), or the path of a file of variables
NoScssVariables == [kind |-> "absent", value |-> NoVariables]

\* load_data (configuraptor) of line 117: the dict of variables, and whether
\* it is the very object that was passed in. A missing setting gives the new
\* {} of the call, a path is read into a new dict; for a dict the library is
\* free to hand back the object itself or a copy of it.
load_data(setting) ==
    { [value |-> setting.value, same_object |-> same] :
          same \in (IF setting.kind = "inline" THEN BOOLEAN ELSE {FALSE}) }

\* the three compilations of convert_scss, lines 66, 72-74 and 78-80
Variants ==
    << [language |-> "scss", indented |-> FALSE, dedent |-> FALSE],
       [language |-> "sass", indented |-> TRUE, dedent |-> FALSE],
       [language |-> "sass", indented |-> TRUE, dedent |-> TRUE] >>

CompileError == [raised |-> "CompileError"]

\* what sass.compile can do with a text: raise CompileError or return the
\* css, which is the empty text for a stylesheet that emits no rule
EmptyCss == <<>>

SomeCss == <<"css">>

CompileOutcomes == {CompileError, [css |-> EmptyCss], [css |-> SomeCss]}

\* try_sass_compile, lines 30-36: the css, or None for a CompileError
PyNoneResult == [none |-> TRUE]

try_sass_compile(outcome) ==
    IF outcome = CompileError THEN PyNoneResult ELSE outcome

\* `if result := try_sass_compile(...)`, lines 66, 72 and 78: None and the
\* empty text are both false
ResultIsTrue(result) == result # PyNoneResult /\ result.css # EmptyCss

\* lines 131-133: is the entry compiled as scss
IsScssEntry(entry) ==
    \/ NonEmpty(entry.variables)
    \/ entry.scope # <<>>
    \/ EndsWithAny(entry.file, { <<".", "s", "c", "s", "s">>, <<".", "s", "a", "s", "s">> })
    \/ StartsWith(entry.file, <<"/", "/">>)

-----------------------------------------------------------------------------
(* SpecCss: one css build, every entry handed to extract_contents_for_css *)

\* longest css manifest
MaxCssFiles == 2

VariableNames == {"c", "d"}

GlobalVariables ==
    { [kind |-> kind, value |-> value] :
          kind \in {"inline", "path"},
          value \in { [c |-> "1"], [c |-> "1", d |-> "1"] } }
    \cup {NoScssVariables}

\* a bare text entry is an entry without variables and scope
CssEntries ==
    { [file |-> file, variables |-> variables, scope |-> scope] :
          file \in { <<"a", ".", "c", "s", "s">>, <<"a", ".", "s", "c", "s", "s">> },
          variables \in { NoVariables, [c |-> "2"], [d |-> "2"] },
          scope \in { <<>>, <<".", "x">> } }

CssIdle ==
    /\ css_pc = "off"
    /\ css_files = <<>>
    /\ css_initial = NoScssVariables
    /\ css_settings = NoScssVariables
    /\ css_call = <<>>
    /\ css_used = <<>>
    /\ css_out = <<>>

CssInit ==
    /\ css_pc = "loop"
    /\ css_files \in { s \in TextsUpTo(CssEntries, MaxCssFiles) : Len(s) > 0 }
    /\ css_initial \in GlobalVariables
    /\ css_settings = css_initial
    /\ css_call = <<>>
    /\ css_used = <<>>
    /\ css_out = <<>>

CssEntry == css_files[Len(css_out) + 1]

\* lines 117-127 for one entry: the variables of the call, and the settings
\* afterwards (`variables |= block_variables` changes the dict in place)
EntryVariables(entry, loaded) ==
    IF NonEmpty(entry.variables) THEN Override(loaded.value, entry.variables)
    ELSE loaded.value

SettingsAfter(entry, loaded) ==
    IF NonEmpty(entry.variables) /\ loaded.same_object
    THEN [css_settings EXCEPT !.value = Override(loaded.value, entry.variables)]
    ELSE css_settings

\* lines 139-142: an entry that is not compiled
Css_PlainEntry ==
    /\ UNCHANGED othersCss
    /\ css_pc = "loop"
    /\ Len(css_out) < Len(css_files)
    /\ ~IsScssEntry(CssEntry)
    /\ css_out' = Append(css_out, [css |-> SomeCss])
    /\ css_used' = Append(css_used, [compiled |-> FALSE, variables |-> NoVariables])
    /\ UNCHANGED <<css_pc, css_files, css_initial, css_settings, css_call>>

\* lines 117-138: convert_scss is entered with the variables of the entry
Css_ScssEntry ==
    /\ UNCHANGED othersCss
    /\ css_pc = "loop"
    /\ Len(css_out) < Len(css_files)
    /\ IsScssEntry(CssEntry)
    /\ \E loaded \in load_data(css_settings) :
          /\ css_settings' = SettingsAfter(CssEntry, loaded)
          /\ css_used' = Append(css_used,
                                [compiled |-> TRUE,
                                 variables |-> EntryVariables(CssEntry, loaded)])
    /\ css_call' = <<>>
    /\ css_pc' = "convert_scss"
    /\ UNCHANGED <<css_files, css_initial, css_out>>

\* one `if result := try_sass_compile(...)` of convert_scss: the next variant
\* is compiled; a true result is returned, after the third the function raises
Css_Compile ==
    /\ UNCHANGED othersCss
    /\ css_pc = "convert_scss"
    /\ \E outcome \in CompileOutcomes :
          /\ css_call' = Append(css_call, [variant |-> Variants[Len(css_call) + 1],
                                            outcome |-> outcome])
          /\ IF ResultIsTrue(try_sass_compile(outcome))
             THEN /\ css_out' = Append(css_out, try_sass_compile(outcome))
                  /\ css_pc' = "loop"
             ELSE IF Len(css_call) + 1 < Len(Variants)
             THEN UNCHANGED <<css_out, css_pc>>
             ELSE /\ css_out' = Append(css_out, CompileError)
                  /\ css_pc' = "raised"
    /\ UNCHANGED <<css_files, css_initial, css_settings, css_used>>

\* every entry was handled
Css_Finish ==
    /\ UNCHANGED othersCss
    /\ css_pc = "loop"
    /\ Len(css_out) = Len(css_files)
    /\ css_pc' = "done"
    /\ UNCHANGED <<css_files, css_initial, css_settings, css_call, css_used, css_out>>

NextCss ==
    \/ Css_PlainEntry
    \/ Css_ScssEntry
    \/ Css_Compile
    \/ Css_Finish

-----------------------------------------------------------------------------
(* Claims about convert_scss and extract_contents_for_css *)

\* the compilations of the call that succeeded
Succeeded(call) == {k \in 1..Len(call) : call[k].outcome # CompileError}

\* the last call of convert_scss has returned or raised
CallOver == css_pc \in {"loop", "raised", "done"} /\ css_call # <<>>

\* C14: convert_scss tries SCSS, indented SASS, indented SASS on the dedented
\* source, in this order; it returns the output of the first variant whose
\* compilation succeeds without attempting the later ones, and raises
\* CompileError if and only if all three fail.
C14_FirstSuccessfulVariantWins ==
    /\ \A k \in 1..Len(css_call) : css_call[k].variant = Variants[k]
    /\ CallOver =>
           IF Succeeded(css_call) = {}
           THEN Len(css_call) = Len(Variants) /\ css_out[Len(css_out)] = CompileError
           ELSE /\ Succeeded(css_call) = {Len(css_call)}
                /\ css_out[Len(css_out)] = css_call[Len(css_call)].outcome

\* C18: a structured entry is compiled with the global scss_variables
\* overridden key by key by its own variables; the variables of an entry are
\* scoped to it: the global scss_variables of the settings stay as they were,
\* so no later entry sees a key or value an earlier entry brought.
C18_EntryVariablesAreScoped ==
    /\ css_settings = css_initial
    /\ \A i \in 1..Len(css_used) :
           css_used[i].compiled =>
               css_used[i].variables = Override(css_initial.value, css_files[i].variables)

-----------------------------------------------------------------------------
(* css.py: convert_scss_key, convert_scss_value, convert_to_sass_variables *)

\* the Python values a variable can hold
VStr(s) == [t |-> "str", s |-> s]

VList(items) == [t |-> "list", items |-> items]

VDict(pairs) == [t |-> "dict", pairs |-> pairs]

VFloat(whole, tenths) == [t |-> "float", whole |-> whole, tenths |-> tenths]

VNone == [t |-> "none"]

VBool(b) == [t |-> "bool", b |-> b]

VInt(n) == [t |-> "int", n |-> n]

\* a value of a type the match statement has no case for
VTuple == [t |-> "tuple"]

\* str(n) of an int, and of a float with one decimal
StrOfInt(n) == IF n < 0 THEN <<"-">> \o IntToStr(0 - n) ELSE IntToStr(n)

StrOfFloat(whole, tenths) == StrOfInt(whole) \o <<".">> \o IntToStr(tenths)

\* value.removesuffix(";"), line 156
removesuffix(text, suffix) ==
    IF EndsWith(text, suffix) THEN SubSeq(text, 1, Len(text) - Len(suffix))
    ELSE text

\* raise NotImplementedError(f"Unsupported type ..."), line 183: the mark it
\* leaves in the text being built; the callers pass it on
Unsupported == "NotImplementedError"

\* convert_scss_key, lines 146-148
convert_scss_key(key, _level) ==
    (IF _level = 0 THEN <<"$">> ELSE <<>>) \o str_replace(key, <<"_">>, <<"-">>)

\* line 159: `if _level > 1`
ListInParens_always(_level) == TRUE

ListInParens(_level) == _level > 1

\* ", ".join(...) of lines 158 and 164
RECURSIVE JoinTexts(_, _)
JoinTexts(texts, i) ==
    IF i > Len(texts) THEN <<>>
    ELSE IF i = Len(texts) THEN texts[i]
    ELSE texts[i] \o <<",", " ">> \o JoinTexts(texts, i + 1)

\* convert_scss_value, lines 151-183; level is the _level argument
RECURSIVE convert_scss_value(_, _)
convert_scss_value(value, level) ==
    LET _level == level + 1
    IN  CASE value.t = "str" -> removesuffix(value.s, <<";">>)
          [] value.t = "list" ->
                 LET converted ==
                         JoinTexts([i \in 1..Len(value.items) |->
                                       convert_scss_value(value.items[i], _level)], 1)
                 IN  IF ListInParens(_level) THEN <<"(">> \o converted \o <<")">>
                     ELSE converted
          [] value.t = "dict" ->
                 <<"(">>
                 \o JoinTexts([i \in 1..Len(value.pairs) |->
                                  convert_scss_key(value.pairs[i].key, _level)
                                  \o <<":", " ">>
                                  \o convert_scss_value(value.pairs[i].value, _level + 1)],
                              1)
                 \o <<")">>
          [] value.t = "float" -> StrOfFloat(value.whole, value.tenths)
          [] value.t = "none" -> <<"n", "u", "l", "l">>
          [] value.t = "bool" -> IF value.b THEN <<"t", "r", "u", "e">> ELSE <<"f", "a", "l", "s", "e">>
          [] value.t = "int" -> StrOfInt(value.n)
          [] OTHER -> <<Unsupported>>

\* line 189
Eol(_language) == IF _language = "scss" THEN <<";", "\n">> ELSE <<"\n">>

\* lines 191-194: the loop over the variables, in the order of the dict
RECURSIVE sass_code(_, _, _)
sass_code(_language, variables, i) ==
    IF i > Len(variables) THEN <<>>
    ELSE convert_scss_key(variables[i].key, 0) \o <<":", " ">>
         \o convert_scss_value(variables[i].value, 0) \o Eol(_language)
         \o sass_code(_language, variables, i + 1)

\* convert_to_sass_variables, lines 186-196: the code, or the error of the
\* first value that cannot be converted
convert_to_sass_variables(_language, variables) ==
    IF Contains(sass_code(_language, variables, 1), Unsupported)
    THEN [raised |-> Unsupported]
    ELSE [code |-> sass_code(_language, variables, 1)]

-----------------------------------------------------------------------------
(* SpecSass: every call of convert_to_sass_variables over bounded values *)

\* longest list held by a variable
MaxItems == 2

Scalars ==
    { VStr(<<"a">>), VStr(<<"a", ";">>), VStr(<<";", ";">>), VStr(<<>>), VBool(TRUE), VBool(FALSE), VNone,
      VInt(0), VInt(1), VInt(16), VInt(0 - 3), VFloat(1, 5), VFloat(2, 0), VTuple }

FewScalars == { VStr(<<"a">>), VInt(1), VBool(TRUE), VNone }

FlatLists == { VList(items) : items \in TextsUpTo(FewScalars, MaxItems) }

MapKeys == { <<"p", "_", "c">>, <<"k">> }

FlatDicts ==
    { VDict(<<[key |-> key, value |-> value]>>) :
          key \in MapKeys, value \in FewScalars \cup {VTuple} }
    \cup { VDict(<<>>),
           VDict(<<[key |-> <<"k">>, value |-> VInt(1)], [key |-> <<"p", "_", "c">>, value |-> VStr(<<"a", ";">>)]>>) }

NestedValues ==
    { VList(<<inner, VStr(<<"a">>)>>) :
          inner \in { VList(<<VInt(1), VInt(16)>>), VList(<<>>), VList(<<VTuple>>),
                       VDict(<<[key |-> <<"p", "_", "c">>, value |-> VBool(FALSE)]>>) } }
    \cup { VDict(<<[key |-> <<"a", "_", "b", "_", "c">>, value |-> inner]>>) :
               inner \in { VList(<<VInt(1), VInt(16)>>), VList(<<VList(<<VNone>>)>>),
                            VDict(<<[key |-> <<"k">>, value |-> VList(<<VStr(<<"a">>), VStr(<<"a">>)>>)]>>) } }

SassValues == Scalars \cup FlatLists \cup FlatDicts \cup NestedValues

SassNames == { <<"f", "o", "n", "t", "_", "s", "i", "z", "e">>, <<"a">> }

SassPairs == [key : SassNames, value : SassValues]

SassVariables ==
    { <<>> } \cup { <<p>> : p \in SassPairs }
    \cup { t \in SassPairs \X SassPairs : t[1].key # t[2].key }

SassIdle ==
    /\ sass_pc = "off"
    /\ sass_in = [language |-> "scss", variables |-> <<>>]
    /\ sass_out = [code |-> <<>>]

SassInit ==
    /\ sass_pc = "call"
    /\ sass_in \in [language : {"scss", "sass"}, variables : SassVariables]
    /\ sass_out = [code |-> <<>>]

\* lines 64 and 70 of convert_scss: the variables are rendered
ConvertToSassVariables ==
    /\ UNCHANGED othersSass
    /\ sass_pc = "call"
    /\ sass_out' = convert_to_sass_variables(sass_in.language, sass_in.variables)
    /\ sass_pc' = "done"
    /\ UNCHANGED sass_in

NextSass == ConvertToSassVariables

-----------------------------------------------------------------------------
(* Claims about convert_to_sass_variables *)

\* underscores become hyphens
RECURSIVE Hyphenated(_)
Hyphenated(name) ==
    IF name = <<>> THEN <<>>
    ELSE <<IF name[1] = "_" THEN "-" ELSE name[1]>> \o Hyphenated(Tail(name))

RECURSIVE CommaJoined(_)
CommaJoined(texts) ==
    IF Len(texts) = 0 THEN <<>>
    ELSE IF Len(texts) = 1 THEN texts[1]
    ELSE texts[1] \o <<",", " ">> \o CommaJoined(Tail(texts))

InParens(text) == <<"(">> \o text \o <<")">>

\* does the value hold, at any depth, a value of an unsupported type
RECURSIVE HoldsUnsupported(_)
HoldsUnsupported(value) ==
    CASE value.t = "list" ->
             \E i \in 1..Len(value.items) : HoldsUnsupported(value.items[i])
      [] value.t = "dict" ->
             \E i \in 1..Len(value.pairs) : HoldsUnsupported(value.pairs[i].value)
      [] OTHER -> value.t \notin {"str", "float", "none", "bool", "int"}

\* the rendering the claim describes; nested: below the top level
RECURSIVE Rendering(_, _)
Rendering(value, nested) ==
    CASE value.t = "str" ->
             IF value.s # <<>> /\ value.s[Len(value.s)] = ";"
             THEN SubSeq(value.s, 1, Len(value.s) - 1) ELSE value.s
      [] value.t = "list" ->
             LET joined == CommaJoined([i \in 1..Len(value.items) |->
                                           Rendering(value.items[i], TRUE)])
             IN  IF nested THEN InParens(joined) ELSE joined
      [] value.t = "dict" ->
             InParens(CommaJoined([i \in 1..Len(value.pairs) |->
                                      Hyphenated(value.pairs[i].key) \o <<":", " ">>
                                      \o Rendering(value.pairs[i].value, TRUE)]))
      [] value.t = "bool" -> IF value.b THEN <<"t", "r", "u", "e">> ELSE <<"f", "a", "l", "s", "e">>
      [] value.t = "none" -> <<"n", "u", "l", "l">>
      [] value.t = "int" -> StrOfInt(value.n)
      [] value.t = "float" -> StrOfFloat(value.whole, value.tenths)

Declaration(pair, terminator) ==
    <<"$">> \o Hyphenated(pair.key) \o <<":", " ">> \o Rendering(pair.value, FALSE)
    \o terminator

RECURSIVE Declarations(_, _)
Declarations(variables, terminator) ==
    IF variables = <<>> THEN <<>>
    ELSE Declaration(variables[1], terminator)
         \o Declarations(Tail(variables), terminator)

\* C15: convert_to_sass_variables renders the variables in insertion order as
\* one declaration `$name: value` each, ended by `;` and a newline in SCSS
\* mode and by a newline in SASS mode, names and values the same in both;
\* underscores in names and map keys become hyphens, a text loses one
\* trailing semicolon, lists are comma-joined and in parentheses only below
\* the top level, maps are parenthesized `key: value` pairs, booleans are
\* true/false and never numbers, None is null, numbers are their decimal
\* text, and any other type raises the unsupported-type error.
C15_VariablesRenderedAsDeclared ==
    sass_pc = "done" =>
        IF \E i \in 1..Len(sass_in.variables) :
               HoldsUnsupported(sass_in.variables[i].value)
        THEN sass_out = [raised |-> Unsupported]
        ELSE sass_out =
                 [code |-> Declarations(sass_in.variables,
                                        IF sass_in.language = "scss"
                                        THEN <<";", "\n">> ELSE <<"\n">>)]

\* the variables of the repository's test in small: a top-level list, a
\* boolean and a map with a nested list
C15_Witness ==
    /\ sass_pc = "done"
    /\ sass_in.language = "sass"
    /\ sass_in.variables =
           << [key |-> <<"f", "o", "n", "t", "_", "s", "i", "z", "e">>, value |-> VList(<<VStr(<<"a">>), VInt(1)>>)],
              [key |-> <<"a">>,
               value |-> VDict(<<[key |-> <<"a", "_", "b", "_", "c">>,
                                 value |-> VList(<<VInt(1), VInt(16)>>)]>>)] >>
    /\ sass_out = [code |-> <<"$", "f", "o", "n", "t", "-", "s", "i", "z", "e", ":", " ", "a", ",", " ", "1">> \o <<"\n">>
                            \o <<"$", "a", ":", " ", "(", "a", "-", "b", "-", "c", ":", " ", "(", "1", ",", " ", "1", "6", ")", ")">> \o <<"\n">>]

-----------------------------------------------------------------------------
(* The specifications: each runs one part; the other parts stay idle *)

InitVersion == VerInit /\ FilesIdle /\ LedgerIdle /\ ConfigIdle /\ FillIdle /\ KindIdle /\ WrapIdle /\ TsIdle /\ CssIdle /\ SassIdle

SpecVersion == InitVersion /\ [][NextVersion]_vars

InitFiles == FilesInit /\ VerIdle /\ LedgerIdle /\ ConfigIdle /\ FillIdle /\ KindIdle /\ WrapIdle /\ TsIdle /\ CssIdle /\ SassIdle

SpecFiles == InitFiles /\ [][NextFiles]_vars

InitLedger == LedgerIdle /\ VerIdle /\ FilesIdle /\ ConfigIdle /\ FillIdle /\ KindIdle /\ WrapIdle /\ TsIdle /\ CssIdle /\ SassIdle

SpecLedger == InitLedger /\ [][NextLedger]_vars

InitConfig == ConfigInit /\ VerIdle /\ FilesIdle /\ LedgerIdle /\ FillIdle /\ KindIdle /\ WrapIdle /\ TsIdle /\ CssIdle /\ SassIdle

SpecConfig == InitConfig /\ [][NextConfig]_vars

InitFill == FillInit /\ VerIdle /\ FilesIdle /\ LedgerIdle /\ ConfigIdle /\ KindIdle /\ WrapIdle /\ TsIdle /\ CssIdle /\ SassIdle

SpecFill == InitFill /\ [][NextFill]_vars

InitKind == KindInit /\ VerIdle /\ FilesIdle /\ LedgerIdle /\ ConfigIdle /\ FillIdle /\ WrapIdle /\ TsIdle /\ CssIdle /\ SassIdle

SpecKind == InitKind /\ [][NextKind]_vars

InitWrap == WrapInit /\ VerIdle /\ FilesIdle /\ LedgerIdle /\ ConfigIdle /\ FillIdle /\ KindIdle /\ TsIdle /\ CssIdle /\ SassIdle

SpecWrap == InitWrap /\ [][NextWrap]_vars

InitTs == TsInit /\ VerIdle /\ FilesIdle /\ LedgerIdle /\ ConfigIdle /\ FillIdle /\ KindIdle /\ WrapIdle /\ CssIdle /\ SassIdle

SpecTs == InitTs /\ [][NextTs]_vars

\* the build runs to its end: a step that can be taken is taken
SpecTsLive == InitTs /\ [][NextTs]_vars /\ WF_vars(NextTs)

InitCss == CssInit /\ VerIdle /\ FilesIdle /\ LedgerIdle /\ ConfigIdle /\ FillIdle /\ KindIdle /\ WrapIdle /\ TsIdle /\ SassIdle

SpecCss == InitCss /\ [][NextCss]_vars

InitSass == SassInit /\ VerIdle /\ FilesIdle /\ LedgerIdle /\ ConfigIdle /\ FillIdle /\ KindIdle /\ WrapIdle /\ TsIdle /\ CssIdle

SpecSass == InitSass /\ [][NextSass]_vars

=============================================================================
